---- MODULE Spec2Model ----
(***************************************************************************)
(* pygoogledocs: the markdown compiler (pygoogledocs/markdown.py) and the  *)
(* Document facade (pygoogledocs/document.py).                             *)
(*                                                                         *)
(* Text is a sequence of one-character strings.  A DOM node is a record    *)
(* [name, text, href, kids]: a text node has name "" (BeautifulSoup's      *)
(* None) and carries its characters in text; an element carries its tag    *)
(* name, its children in kids and, for <a>, its href ("" when missing).    *)
(* A Google Docs request is the nested record the code builds, e.g.        *)
(* [insertText |-> [location |-> [index |-> 10], text |-> <<"a","\n">>]].  *)
(***************************************************************************)
EXTENDS Integers, Sequences, FiniteSets, TLC

\* convert_to_doc_requests: its arguments (the parsed soup.contents and
\* start_index), its locals and its position
VARIABLES blocks, start_index, pos, insertion_index, requests, block_requests, pc

\* Document: the cached last_index (<<>> for None, <<n>> for n), the remote
\* document behind docs_service, the calls made on docs_service, and the
\* Document methods called so far
VARIABLES last_index, remote, calls, ops

\* The regex path of MarkdownFormatter: the markdown text handed to it, the
\* method called on it ("ready" before the call, "idle" when the path is not
\* in use), the method's other argument (index or position) and its return
\* value
VARIABLES md_text, method, arg, returned

cvars == <<blocks, start_index, pos, insertion_index, requests, block_requests, pc>>

dvars == <<last_index, remote, calls, ops>>

rvars == <<md_text, method, arg, returned>>

vars == <<cvars, dvars, rvars>>

(***************************************************************************)
(* Bounds of the model.                                                    *)
(***************************************************************************)
MaxTextLen == 2
MaxItems == 2
MaxBlocks == 2
MaxStart == 2
MaxProblems == 1
MaxOps == 2
MaxFailures == 1
MaxTokens == 3

(***************************************************************************)
(* Python string operations used by the code.                              *)
(***************************************************************************)
RECURSIVE Flatten(_)
Flatten(ss) == IF ss = <<>> THEN <<>> ELSE Head(ss) \o Flatten(Tail(ss))

IsSpace(c) == c \in {" ", "\n", "\t"}

RECURSIVE LStrip(_)
LStrip(s) == IF s # <<>> /\ IsSpace(Head(s)) THEN LStrip(Tail(s)) ELSE s

RECURSIVE RStrip(_)
RStrip(s) ==
    IF s # <<>> /\ IsSpace(s[Len(s)]) THEN RStrip(SubSeq(s, 1, Len(s) - 1)) ELSE s

Strip(s) == RStrip(LStrip(s))

\* str.find: the zero-based index of the first occurrence, -1 when absent
Find(hay, needle) ==
    LET hits == {i \in 0..(Len(hay) - Len(needle)) :
                    SubSeq(hay, i + 1, i + Len(needle)) = needle}
    IN  IF hits = {} THEN -1 ELSE CHOOSE i \in hits : \A j \in hits : i <= j

RECURSIVE Join(_, _)
Join(sep, parts) ==
    IF parts = <<>> THEN <<>>
    ELSE IF Len(parts) = 1 THEN Head(parts)
    ELSE Head(parts) \o sep \o Join(sep, Tail(parts))

(***************************************************************************)
(* The BeautifulSoup DOM.                                                  *)
(***************************************************************************)
T(t) == [name |-> "", text |-> t, href |-> "", kids |-> <<>>]
E(n, k) == [name |-> n, text |-> <<>>, href |-> "", kids |-> k]
A(h, k) == [name |-> "a", text |-> <<>>, href |-> h, kids |-> k]

\* Tag.get_text(): the concatenation of the node's strings in document order
RECURSIVE GetText(_)
GetText(node) ==
    IF node.name = "" THEN node.text
    ELSE Flatten([i \in 1..Len(node.kids) |-> GetText(node.kids[i])])

\* Tag.descendants: every node below the tag, in document (pre-)order
RECURSIVE Descendants(_)
Descendants(node) ==
    Flatten([i \in 1..Len(node.kids) |->
                <<node.kids[i]>> \o Descendants(node.kids[i])])

\* Tag.find_all(n, recursive=False): the direct children named n
FindAllDirect(node, n) == SelectSeq(node.kids, LAMBDA k : k.name = n)

(***************************************************************************)
(* Request constructors.                                                   *)
(***************************************************************************)
InsertTextReq(index, text) ==
    [insertText |-> [location |-> [index |-> index], text |-> text]]

IsInsert(r) == "insertText" \in DOMAIN r
IsTextStyle(r) == "updateTextStyle" \in DOMAIN r
IsParagraphStyle(r) == "updateParagraphStyle" \in DOMAIN r
IsBullets(r) == "createParagraphBullets" \in DOMAIN r
HasRange(r) == IsTextStyle(r) \/ IsParagraphStyle(r) \/ IsBullets(r)

RangeOf(r) ==
    IF IsTextStyle(r) THEN r.updateTextStyle.range
    ELSE IF IsParagraphStyle(r) THEN r.updateParagraphStyle.range
    ELSE r.createParagraphBullets.range

(***************************************************************************)
(* MarkdownFormatter._generate_inline_format_requests                      *)
(***************************************************************************)
InlineTags == {"strong", "b", "em", "i", "code", "a"}

CodeStyle ==
    [weightedFontFamily |-> [fontFamily |-> "Courier New"],
     backgroundColor |-> [color |-> [rgbColor |->
                            [red |-> "0.95", green |-> "0.95", blue |-> "0.95"]]]]

\* the style dict built for one inline element
StyleOf(elem) ==
    IF elem.name \in {"strong", "b"} THEN [bold |-> TRUE]
    ELSE IF elem.name \in {"em", "i"} THEN [italic |-> TRUE]
    ELSE IF elem.name = "code" THEN CodeStyle
    ELSE IF elem.name = "a" /\ elem.href # "" THEN [link |-> [url |-> elem.href]]
    ELSE <<>>

\* the fields list built for one inline element (joined with ',' by the code)
FieldsOf(elem) ==
    IF elem.name \in {"strong", "b"} THEN <<"bold">>
    ELSE IF elem.name \in {"em", "i"} THEN <<"italic">>
    ELSE IF elem.name = "code" THEN <<"weightedFontFamily", "backgroundColor">>
    ELSE IF elem.name = "a" /\ elem.href # "" THEN <<"link">>
    ELSE <<>>

\* the requests of one descendant with the range left relative to the parent
InlineRequestsOfUnshifted(elem, parent_text, insertion_offset) ==
    LET snippet == GetText(elem)
        snippet_start == Find(parent_text, snippet)
        snippet_end == snippet_start + Len(snippet)
    IN  IF elem.name \notin InlineTags THEN <<>>
        ELSE IF snippet = <<>> THEN <<>>
        ELSE IF snippet_start = -1 THEN <<>>
        ELSE << [updateTextStyle |->
                   [range |-> [startIndex |-> snippet_start,
                               endIndex |-> snippet_end],
                    textStyle |-> StyleOf(elem),
                    fields |-> FieldsOf(elem)]] >>

\* the requests one descendant contributes: none, or one updateTextStyle
InlineRequestsOf(elem, parent_text, insertion_offset) ==
    LET snippet == GetText(elem)
        snippet_start == Find(parent_text, snippet)
        snippet_end == snippet_start + Len(snippet)
    IN  IF elem.name \notin InlineTags THEN <<>>
        ELSE IF snippet = <<>> THEN <<>>
        ELSE IF snippet_start = -1 THEN <<>>
        ELSE << [updateTextStyle |->
                   [range |-> [startIndex |-> insertion_offset + snippet_start,
                               endIndex |-> insertion_offset + snippet_end],
                    textStyle |-> StyleOf(elem),
                    fields |-> FieldsOf(elem)]] >>

GenerateInlineFormatRequests(parent_tag, insertion_offset) ==
    LET parent_text == GetText(parent_tag)
        ds == Descendants(parent_tag)
    IN  Flatten([i \in 1..Len(ds) |->
                    InlineRequestsOf(ds[i], parent_text, insertion_offset)])

(***************************************************************************)
(* MarkdownFormatter._process_paragraph                                    *)
(***************************************************************************)
ParagraphText(block) ==
    IF Strip(GetText(block)) = <<>> THEN <<"\n">> ELSE GetText(block) \o <<"\n">>

\* the paragraph compiled without the cursor moving past its text
ProcessParagraphStale(block, index) ==
    [requests |-> <<InsertTextReq(index, ParagraphText(block))>>
                    \o GenerateInlineFormatRequests(block, index),
     index |-> index]

ProcessParagraph(block, index) ==
    LET paragraph_text == ParagraphText(block)
        start_offset == index
        end_offset == index + Len(paragraph_text)
    IN  [requests |-> <<InsertTextReq(index, paragraph_text)>>
                        \o GenerateInlineFormatRequests(block, start_offset),
         index |-> end_offset]

(***************************************************************************)
(* MarkdownFormatter._process_heading                                      *)
(***************************************************************************)
HeadingTags == {"h1", "h2", "h3", "h4", "h5", "h6"}

\* int(block.name[-1])
LevelOfName(n) ==
    CASE n = "h1" -> 1 [] n = "h2" -> 2 [] n = "h3" -> 3
      [] n = "h4" -> 4 [] n = "h5" -> 5 [] n = "h6" -> 6

ClampLevel(level) == IF level < 1 \/ level > 6 THEN 1 ELSE level

\* f'HEADING_{level}'
HeadingStyleName(level) ==
    CASE level = 1 -> "HEADING_1" [] level = 2 -> "HEADING_2"
      [] level = 3 -> "HEADING_3" [] level = 4 -> "HEADING_4"
      [] level = 5 -> "HEADING_5" [] level = 6 -> "HEADING_6"

\* the heading text without its newline
HeadingTextBare(block) == GetText(block)

HeadingText(block) == GetText(block) \o <<"\n">>

\* the heading compiled with its paragraph style after its inline styles
ProcessHeadingStyledLast(block, index) ==
    LET heading_text == HeadingText(block)
        end_offset == index + Len(heading_text)
        level == ClampLevel(LevelOfName(block.name))
    IN  [requests |->
            <<InsertTextReq(index, heading_text)>>
            \o GenerateInlineFormatRequests(block, index)
            \o << [updateParagraphStyle |->
                     [range |-> [startIndex |-> index, endIndex |-> end_offset - 1],
                      paragraphStyle |-> [namedStyleType |-> HeadingStyleName(level)],
                      fields |-> <<"namedStyleType">>]] >>,
         index |-> end_offset]

ProcessHeading(block, index) ==
    LET heading_text == HeadingText(block)
        start_offset == index
        end_offset == index + Len(heading_text)
        level == ClampLevel(LevelOfName(block.name))
    IN  [requests |->
            << InsertTextReq(index, heading_text),
               [updateParagraphStyle |->
                   [range |-> [startIndex |-> start_offset, endIndex |-> end_offset],
                    paragraphStyle |-> [namedStyleType |-> HeadingStyleName(level)],
                    fields |-> <<"namedStyleType">>]] >>
            \o GenerateInlineFormatRequests(block, start_offset),
         index |-> end_offset]

(***************************************************************************)
(* MarkdownFormatter._process_list                                         *)
(***************************************************************************)
\* the text of one <li> with its paragraphs joined by a single newline
LiTextSingleNewline(list_item) ==
    LET paragraphs == FindAllDirect(list_item, "p")
    IN  IF paragraphs # <<>>
        THEN RStrip(Join(<<"\n">>, [i \in 1..Len(paragraphs) |-> GetText(paragraphs[i])]))
                \o <<"\n">>
        ELSE RStrip(GetText(list_item)) \o <<"\n">>

\* the text inserted for one <li>
LiText(list_item) ==
    LET paragraphs == FindAllDirect(list_item, "p")
        combined_content ==
            [i \in 1..Len(paragraphs) |->
                IF Strip(GetText(paragraphs[i])) = <<>> THEN <<"\n">>
                ELSE GetText(paragraphs[i])]
    IN  IF paragraphs # <<>>
        THEN RStrip(Join(<<"\n", "\n">>, combined_content)) \o <<"\n">>
        ELSE RStrip(GetText(list_item)) \o <<"\n">>

\* the presets the other way round
BulletPresetSwapped(ordered) ==
    IF ordered THEN "BULLET_DISC_CIRCLE_SQUARE" ELSE "NUMBERED_DECIMAL_ALPHA_ROMAN"

BulletPreset(ordered) ==
    IF ~ordered THEN "BULLET_DISC_CIRCLE_SQUARE" ELSE "NUMBERED_DECIMAL_ALPHA_ROMAN"

\* The loop over the <li> elements.  st carries the loop's variables:
\* requests, insertion_index, list_item_start_index and list_item_end_index
\* (<<>> stands for None, <<n>> for the integer n).
RECURSIVE ListLoop(_, _)
ListLoop(list_items, st) ==
    IF list_items = <<>> THEN st
    ELSE LET list_item == Head(list_items)
             li_text == LiText(list_item)
             first == IF st.list_item_start_index = <<>>
                      THEN <<st.insertion_index>>
                      ELSE st.list_item_start_index
             next_index == st.insertion_index + Len(li_text)
         IN  ListLoop(Tail(list_items),
                [requests |-> st.requests
                        \o <<InsertTextReq(st.insertion_index, li_text)>>
                        \o GenerateInlineFormatRequests(list_item, first[1]),
                 insertion_index |-> next_index,
                 list_item_start_index |-> first,
                 list_item_end_index |-> <<next_index>>])

\* the list compiled without the cursor moving past its items
ProcessListCursorKept(block, index, ordered) ==
    LET list_items == FindAllDirect(block, "li")
        st == ListLoop(list_items,
                [requests |-> <<>>, insertion_index |-> index,
                 list_item_start_index |-> <<>>, list_item_end_index |-> <<>>])
        bullets ==
            IF st.list_item_start_index # <<>> /\ st.list_item_end_index # <<>>
            THEN << [createParagraphBullets |->
                       [range |-> [startIndex |-> st.list_item_start_index[1],
                                   endIndex |-> st.list_item_end_index[1]],
                        bulletPreset |-> BulletPreset(ordered)]] >>
            ELSE <<>>
    IN  [requests |-> st.requests \o bullets, index |-> index]

ProcessList(block, index, ordered) ==
    LET list_items == FindAllDirect(block, "li")
        st == ListLoop(list_items,
                [requests |-> <<>>, insertion_index |-> index,
                 list_item_start_index |-> <<>>, list_item_end_index |-> <<>>])
        bullets ==
            IF st.list_item_start_index # <<>> /\ st.list_item_end_index # <<>>
            THEN << [createParagraphBullets |->
                       [range |-> [startIndex |-> st.list_item_start_index[1],
                                   endIndex |-> st.list_item_end_index[1]],
                        bulletPreset |-> BulletPreset(ordered)]] >>
            ELSE <<>>
    IN  [requests |-> st.requests \o bullets, index |-> st.insertion_index]

(***************************************************************************)
(* MarkdownFormatter.convert_to_doc_requests: one loop iteration           *)
(***************************************************************************)
IsWhitespaceNode(block) == block.name = "" /\ Strip(block.text) = <<>>

\* A string at top level that is not blank (a NavigableString: a comment, a
\* declaration, stray text) takes the fallback branch, and
\* _generate_inline_format_requests reads parent_tag.descendants, which a
\* NavigableString does not have: AttributeError.
RaisesAttributeError(block) == block.name = "" /\ ~IsWhitespaceNode(block)

ProcessBlock(block, index) ==
    IF IsWhitespaceNode(block) THEN [requests |-> <<>>, index |-> index]
    ELSE IF block.name = "p" THEN ProcessParagraph(block, index)
    ELSE IF block.name \in HeadingTags THEN ProcessHeading(block, index)
    ELSE IF block.name = "ul" THEN ProcessList(block, index, FALSE)
    ELSE IF block.name = "ol" THEN ProcessList(block, index, TRUE)
    ELSE ProcessParagraph(block, index)

\* the whole loop, as insert_markdown calls it
RECURSIVE ConvertLoop(_, _, _)
ConvertLoop(bs, index, acc) ==
    IF bs = <<>> THEN [requests |-> acc, index |-> index, raised |-> FALSE]
    ELSE IF RaisesAttributeError(Head(bs))
    THEN [requests |-> acc, index |-> index, raised |-> TRUE]
    ELSE LET r == ProcessBlock(Head(bs), index)
         IN  ConvertLoop(Tail(bs), r.index, acc \o r.requests)

ConvertToDocRequests(bs, index) == ConvertLoop(bs, index, <<>>).requests

(***************************************************************************)
(* Input documents: the DOM python-markdown and BeautifulSoup hand to the  *)
(* compiler.  Raw HTML passes through python-markdown unchanged, so any    *)
(* tree of these tags can be an input.                                     *)
(***************************************************************************)
Chars == {"a", " "}

Texts == UNION {[1..n -> Chars] : n \in 1..MaxTextLen}

PlainInlines == {<<T(t)>> : t \in Texts}

StrongInlines == {<<E("strong", <<T(t)>>)>> : t \in Texts}

TagInlines ==
    {<<T(<<" ">>), E(n, <<T(<<"a">>)>>)>> : n \in InlineTags \ {"a"}}
    \cup {<<T(<<" ">>), A(h, <<T(<<"a">>)>>)>> : h \in {"", "u"}}

\* an inline element whose text also occurs earlier in the block
RepeatedInline == <<T(<<"a">>), E("em", <<T(<<"a">>)>>)>>

ParagraphBlocks ==
    {E("p", c) : c \in PlainInlines \cup StrongInlines \cup TagInlines
                        \cup {<<>>, RepeatedInline}}

HeadingBlocks ==
    {E(h, <<T(<<"a">>)>>) : h \in HeadingTags}
    \cup {E("h2", <<E("em", <<T(<<"a">>)>>)>>), E("h1", <<>>)}

NL == T(<<"\n">>)

\* "* *a*": a tight item
TightItem == E("li", <<E("em", <<T(<<"a">>)>>)>>)
\* <li><strong>a  </strong></li>: an item whose text ends in white space
TrailingItem == E("li", <<E("strong", <<T(<<"a", " ", " ">>)>>)>>)
\* a loose item of two paragraphs, as python-markdown serialises it
LooseItem ==
    E("li", <<NL, E("p", <<E("em", <<T(<<"a">>)>>)>>), NL,
              E("p", <<T(<<" ">>), E("code", <<T(<<"a">>)>>)>>), NL>>)
\* a loose item holding a paragraph and a nested list
NestedItem ==
    E("li", <<NL, E("p", <<T(<<"a">>)>>), NL,
              E("ul", <<NL, E("li", <<E("em", <<T(<<"a", "a">>)>>)>>), NL>>), NL>>)

ListItems == {TightItem, TrailingItem, LooseItem, NestedItem}

ItemSeqs == UNION {[1..n -> ListItems] : n \in 0..MaxItems}

\* the <li> children of a list, separated by the newlines of the serialiser
RECURSIVE WithNewlines(_)
WithNewlines(items) ==
    IF items = <<>> THEN <<NL>> ELSE <<NL, Head(items)>> \o WithNewlines(Tail(items))

ListBlocks == {E(n, WithNewlines(items)) : n \in {"ul", "ol"}, items \in ItemSeqs}

\* "<!--a-->" at top level: the comment python-markdown passes through
StrayString == T(<<"a">>)

\* top-level nodes that are none of p, h1..h6, ul, ol
OtherBlocks ==
    {E("div", <<T(<<"a">>)>>), StrayString,
     E("blockquote", <<NL, E("p", <<E("strong", <<T(<<"a">>)>>)>>), NL>>)}

Blocks == ParagraphBlocks \cup HeadingBlocks \cup ListBlocks \cup OtherBlocks \cup {NL}

\* the blocks that may precede the last block of a generated document
LeadBlocks ==
    {NL, E("p", <<T(<<"a">>)>>), E("h3", <<T(<<"a">>)>>),
     E("ul", <<NL, TightItem, NL>>)}

LeadSeqs == UNION {[1..n -> LeadBlocks] : n \in 0..(MaxBlocks - 1)}

Docs == {<<>>} \cup {lead \o <<b>> : lead \in LeadSeqs, b \in Blocks}

StartIndices == 1..MaxStart

\* "# Title\n\nHello **world**\n"
ExampleDoc ==
    << E("h1", <<T(<<"T", "i", "t", "l", "e">>)>>),
       NL,
       E("p", <<T(<<"H", "e", "l", "l", "o", " ">>),
                E("strong", <<T(<<"w", "o", "r", "l", "d">>)>>)>>) >>

\* "**a *b* c**"
NestedEmphasisDoc ==
    << E("p", << E("strong", <<T(<<"a", " ">>), E("em", <<T(<<"b">>)>>),
                               T(<<" ", "c">>)>>) >>) >>

Inputs ==
    (Docs \X StartIndices)
    \cup {<<ExampleDoc, 10>>}
    \cup ({NestedEmphasisDoc} \X StartIndices)

(***************************************************************************)
(* convert_to_doc_requests as a state machine: one step per iteration of   *)
(* the loop over soup.contents, then the return.                           *)
(***************************************************************************)
Init ==
    /\ \E in \in Inputs : blocks = in[1] /\ start_index = in[2]
    /\ pos = 1
    /\ insertion_index = start_index
    /\ requests = <<>>
    /\ block_requests = <<>>
    /\ pc = "loop"
    /\ last_index = <<>>
    /\ remote = [has_tabs |-> TRUE, tab_id |-> "t.0", end_index |-> 2]
    /\ calls = <<>>
    /\ ops = <<>>
    /\ md_text = <<>>
    /\ method = "idle"
    /\ arg = 0
    /\ returned = <<>>

InLoop == pc = "loop" /\ pos <= Len(blocks)

Advance(r) ==
    /\ block_requests' = r.requests
    /\ requests' = requests \o r.requests
    /\ insertion_index' = r.index
    /\ pos' = pos + 1
    /\ UNCHANGED <<blocks, start_index, pc>>
    /\ UNCHANGED dvars
    /\ UNCHANGED rvars

SkipWhitespace ==
    /\ InLoop
    /\ IsWhitespaceNode(blocks[pos])
    /\ pos' = pos + 1
    /\ UNCHANGED <<blocks, start_index, insertion_index, requests, block_requests, pc>>
    /\ UNCHANGED dvars
    /\ UNCHANGED rvars

Paragraph ==
    /\ InLoop
    /\ ~IsWhitespaceNode(blocks[pos])
    /\ blocks[pos].name = "p"
    /\ Advance(ProcessParagraph(blocks[pos], insertion_index))

Heading ==
    /\ InLoop
    /\ blocks[pos].name \in HeadingTags
    /\ Advance(ProcessHeading(blocks[pos], insertion_index))

UnorderedList ==
    /\ InLoop
    /\ blocks[pos].name = "ul"
    /\ Advance(ProcessList(blocks[pos], insertion_index, FALSE))

OrderedList ==
    /\ InLoop
    /\ blocks[pos].name = "ol"
    /\ Advance(ProcessList(blocks[pos], insertion_index, TRUE))

Fallback ==
    /\ InLoop
    /\ ~IsWhitespaceNode(blocks[pos])
    /\ blocks[pos].name \notin {"p", "ul", "ol"} \cup HeadingTags
    /\ IF RaisesAttributeError(blocks[pos])
       THEN /\ pc' = "raised"
            /\ UNCHANGED <<blocks, start_index, pos, insertion_index, requests,
                           block_requests>>
            /\ UNCHANGED dvars
            /\ UNCHANGED rvars
       ELSE Advance(ProcessParagraph(blocks[pos], insertion_index))

Return ==
    /\ pc = "loop"
    /\ pos > Len(blocks)
    /\ pc' = "done"
    /\ UNCHANGED <<blocks, start_index, pos, insertion_index, requests, block_requests>>
    /\ UNCHANGED dvars
    /\ UNCHANGED rvars

Next ==
    \/ SkipWhitespace
    \/ Paragraph
    \/ Heading
    \/ UnorderedList
    \/ OrderedList
    \/ Fallback
    \/ Return

Spec == Init /\ [][Next]_vars

TypeOK ==
    /\ pos \in 1..(Len(blocks) + 1)
    /\ insertion_index >= start_index
    /\ pc \in {"loop", "done", "raised"}

(***************************************************************************)
(* Helpers of the properties.                                              *)
(***************************************************************************)
InsertIndex(r) == r.insertText.location.index
InsertLen(r) == Len(r.insertText.text)

\* the total length of the texts inserted by a request list
RECURSIVE InsertedLen(_)
InsertedLen(reqs) ==
    IF reqs = <<>> THEN 0
    ELSE (IF IsInsert(Head(reqs)) THEN InsertLen(Head(reqs)) ELSE 0)
            + InsertedLen(Tail(reqs))

Prefix(reqs, j) == SubSeq(reqs, 1, j - 1)

\* the block whose requests block_requests holds, when the last step compiled one
LastBlockCompiled == pos > 1 /\ ~IsWhitespaceNode(blocks[pos - 1])

(***************************************************************************)
(* C1: the insertText offsets never decrease, and each equals start_index  *)
(* plus the lengths of the texts inserted earlier in the stream.           *)
(***************************************************************************)
C1_MonotonicCursor ==
    /\ \A j \in 1..Len(requests) :
          IsInsert(requests[j]) =>
              InsertIndex(requests[j]) = start_index + InsertedLen(Prefix(requests, j))
    /\ \A i, j \in 1..Len(requests) :
          (i < j /\ IsInsert(requests[i]) /\ IsInsert(requests[j])) =>
              InsertIndex(requests[i]) <= InsertIndex(requests[j])

\* a finished compilation of two blocks whose second insertion follows a first
C1_Witness ==
    /\ pc = "done"
    /\ Len(blocks) = 2
    /\ \E i, j \in 1..Len(requests) :
          /\ i < j
          /\ IsInsert(requests[i]) /\ IsInsert(requests[j])
          /\ InsertIndex(requests[j]) > InsertIndex(requests[i])

(***************************************************************************)
(* C2: every style, paragraph-style and bullet range starts at 0 or later, *)
(* ends at or before the final cursor, and has both bounds inside the      *)
(* offsets covered by the insertText requests that precede it.             *)
(***************************************************************************)
CoveredBefore(j, x) ==
    \E i \in 1..(j - 1) :
        /\ IsInsert(requests[i])
        /\ InsertIndex(requests[i]) <= x
        /\ x <= InsertIndex(requests[i]) + InsertLen(requests[i])

C2_RangeContainment ==
    \A j \in 1..Len(requests) :
        HasRange(requests[j]) =>
            LET rg == RangeOf(requests[j])
            IN  /\ rg.startIndex >= 0
                /\ pc = "done" => rg.endIndex <= insertion_index
                /\ CoveredBefore(j, rg.startIndex)
                /\ CoveredBefore(j, rg.endIndex)

(***************************************************************************)
(* C3: the inline style ranges emitted for a list item are the item's      *)
(* spans, placed at the offset of that item's own insertText plus the      *)
(* span's offset inside the item's inserted text.                          *)
(***************************************************************************)
\* the offset, inside GetText(node) shifted by base, of every descendant of
\* node, in the order of Descendants(node)
RECURSIVE DescendantOffsets(_, _)
DescendantOffsets(node, base) ==
    LET off(i) == base + Len(Flatten([j \in 1..(i - 1) |-> GetText(node.kids[j])]))
    IN  Flatten([i \in 1..Len(node.kids) |->
                    <<off(i)>> \o DescendantOffsets(node.kids[i], off(i))])

\* the <<start, end>> of every non-empty inline element below node
SpanRanges(node, base) ==
    LET ds == Descendants(node)
        offs == DescendantOffsets(node, base)
        idx == SelectSeq([i \in 1..Len(ds) |-> i],
                    LAMBDA i : ds[i].name \in InlineTags /\ GetText(ds[i]) # <<>>)
    IN  [k \in 1..Len(idx) |->
            <<offs[idx[k]], offs[idx[k]] + Len(GetText(ds[idx[k]]))>>]

\* the spans of a list item, in the coordinates of the text inserted for it
ItemSpanRanges(list_item, item_start) ==
    LET paragraphs == FindAllDirect(list_item, "p")
        content(i) == IF Strip(GetText(paragraphs[i])) = <<>> THEN <<"\n">>
                      ELSE GetText(paragraphs[i])
        pbase(i) == item_start
                      + Len(Flatten([j \in 1..(i - 1) |-> content(j) \o <<"\n", "\n">>]))
    IN  IF paragraphs = <<>> THEN SpanRanges(list_item, item_start)
        ELSE Flatten([i \in 1..Len(paragraphs) |-> SpanRanges(paragraphs[i], pbase(i))])

\* the positions of the insertText requests of a request list
InsertPositions(reqs) ==
    SelectSeq([i \in 1..Len(reqs) |-> i], LAMBDA i : IsInsert(reqs[i]))

\* the text-style ranges that follow the k-th insertText, up to the next one
SegmentRanges(reqs, k) ==
    LET ips == InsertPositions(reqs)
        from == ips[k] + 1
        to == IF k < Len(ips) THEN ips[k + 1] - 1 ELSE Len(reqs)
        seg == SelectSeq(SubSeq(reqs, from, to), IsTextStyle)
    IN  [i \in 1..Len(seg) |->
            <<RangeOf(seg[i]).startIndex, RangeOf(seg[i]).endIndex>>]

C3_ItemRelativeSpans ==
    (LastBlockCompiled /\ blocks[pos - 1].name \in {"ul", "ol"}) =>
        LET list_items == FindAllDirect(blocks[pos - 1], "li")
            ips == InsertPositions(block_requests)
        IN  \A k \in 1..Len(list_items) :
                SegmentRanges(block_requests, k)
                    = ItemSpanRanges(list_items[k], InsertIndex(block_requests[ips[k]]))

(***************************************************************************)
(* C4: every range emitted while a top-level block is compiled lies        *)
(* between the cursor before the block and the cursor after it.            *)
(***************************************************************************)
C4_BlockContainment ==
    LastBlockCompiled =>
        LET cursor_before == insertion_index - InsertedLen(block_requests)
            cursor_after == insertion_index
        IN  \A j \in 1..Len(block_requests) :
                HasRange(block_requests[j]) =>
                    /\ RangeOf(block_requests[j]).startIndex >= cursor_before
                    /\ RangeOf(block_requests[j]).endIndex <= cursor_after

(***************************************************************************)
(* C5: "# Title", a blank line, "Hello **world**" compiled from index 10   *)
(* gives the four requests of the example, and the final cursor 28.        *)
(***************************************************************************)
ExampleRequests ==
    << [insertText |-> [location |-> [index |-> 10],
                        text |-> <<"T", "i", "t", "l", "e", "\n">>]],
       [updateParagraphStyle |->
            [range |-> [startIndex |-> 10, endIndex |-> 16],
             paragraphStyle |-> [namedStyleType |-> "HEADING_1"],
             fields |-> <<"namedStyleType">>]],
       [insertText |-> [location |-> [index |-> 16],
                        text |-> <<"H", "e", "l", "l", "o", " ",
                                   "w", "o", "r", "l", "d", "\n">>]],
       [updateTextStyle |->
            [range |-> [startIndex |-> 22, endIndex |-> 27],
             textStyle |-> [bold |-> TRUE],
             fields |-> <<"bold">>]] >>

C5_EndToEndExample ==
    (pc = "done" /\ blocks = ExampleDoc /\ start_index = 10) =>
        /\ requests = ExampleRequests
        /\ insertion_index = 28

C5_Witness == pc = "done" /\ blocks = ExampleDoc /\ start_index = 10 /\ Len(requests) = 4

(***************************************************************************)
(* C6: "**a *b* c**" compiles to exactly one bold style request, over the  *)
(* five characters of "a b c", and to no italic style request.             *)
(***************************************************************************)
StylesWith(reqs, field) ==
    SelectSeq(reqs, LAMBDA r : IsTextStyle(r) /\ field \in DOMAIN r.updateTextStyle.textStyle)

C6_BoldSuppressesItalic ==
    (pc = "done" /\ blocks = NestedEmphasisDoc) =>
        /\ Len(StylesWith(requests, "bold")) = 1
        /\ RangeOf(StylesWith(requests, "bold")[1])
                = [startIndex |-> start_index, endIndex |-> start_index + 5]
        /\ StylesWith(requests, "italic") = <<>>

(***************************************************************************)
(* C7: replayed in order on a buffer that ends at start_index, every       *)
(* insertText lands at the end of the buffer, the texts of the blocks are  *)
(* appended once each in document order, and the buffer then ends at the   *)
(* final cursor.                                                           *)
(***************************************************************************)
Filler(n) == [i \in 1..n |-> "#"]

InsertAt(buf, offset, text) ==
    SubSeq(buf, 1, offset) \o text \o SubSeq(buf, offset + 1, Len(buf))

\* the buffer after the requests, and whether every insertion was at its end
RECURSIVE Replay(_, _, _)
Replay(reqs, buf, at_end) ==
    IF reqs = <<>> THEN [buffer |-> buf, at_end |-> at_end]
    ELSE IF IsInsert(Head(reqs))
    THEN Replay(Tail(reqs),
                InsertAt(buf, InsertIndex(Head(reqs)), Head(reqs).insertText.text),
                at_end /\ InsertIndex(Head(reqs)) = Len(buf))
    ELSE Replay(Tail(reqs), buf, at_end)

\* the characters of a text that are not white space
NonSpace(text) == SelectSeq(text, LAMBDA c : ~IsSpace(c))

C7_ReplayReproducesText ==
    pc = "done" =>
        LET r == Replay(requests, Filler(start_index), TRUE)
            appended == SubSeq(r.buffer, start_index + 1, Len(r.buffer))
        IN  /\ r.at_end
            /\ SubSeq(r.buffer, 1, start_index) = Filler(start_index)
            /\ NonSpace(appended)
                 = NonSpace(Flatten([i \in 1..Len(blocks) |-> GetText(blocks[i])]))
            /\ Len(r.buffer) = start_index + InsertedLen(requests)
            /\ Len(r.buffer) = insertion_index

(***************************************************************************)
(* The remote document behind docs_service.  A call on it either returns   *)
(* or raises; a batchUpdate that raises was either not applied or applied  *)
(* with its response lost.  A method call fixes beforehand which of its    *)
(* calls raises (fail, 0 for none) and how (lost).                         *)
(***************************************************************************)
NewSession(fail, lost) ==
    [remote |-> remote, last_index |-> last_index, calls |-> calls,
     n |-> 0, fail |-> fail, lost |-> lost, raised |-> FALSE, error |-> ""]

Raise(s, e) == [s EXCEPT !.raised = TRUE, !.error = e]

\* docs_service.documents().get(...).execute()
RemoteGet(s) ==
    IF s.raised THEN s
    ELSE IF s.n + 1 = s.fail
    THEN Raise([s EXCEPT !.n = @ + 1,
                         !.calls = Append(@, [kind |-> "get", ok |-> FALSE,
                                              requests |-> <<>>])],
               "HttpError")
    ELSE [s EXCEPT !.n = @ + 1,
                   !.calls = Append(@, [kind |-> "get", ok |-> TRUE,
                                        requests |-> <<>>])]

\* the characters one request adds to the body: the text of an insertText,
\* the one character of an inline image, and for a table the newline put
\* before it, its start and end and, per row, the row and two per cell
GrowthOf(r) ==
    IF "insertText" \in DOMAIN r THEN Len(r.insertText.text)
    ELSE IF "insertInlineImage" \in DOMAIN r THEN 1
    ELSE IF "insertTable" \in DOMAIN r
    THEN 3 + r.insertTable.rows * (2 * r.insertTable.columns + 1)
    ELSE 0

RECURSIVE Growth(_)
Growth(reqs) == IF reqs = <<>> THEN 0 ELSE GrowthOf(Head(reqs)) + Growth(Tail(reqs))

\* the remote document after the insertions of a batch
Applied(rem, reqs) == [rem EXCEPT !.end_index = @ + Growth(reqs)]

\* docs_service.documents().batchUpdate(...).execute()
RemoteBatchUpdate(s, reqs) ==
    IF s.raised THEN s
    ELSE IF s.n + 1 = s.fail
    THEN Raise([s EXCEPT !.n = @ + 1,
                         !.remote = IF s.lost THEN Applied(@, reqs) ELSE @,
                         !.calls = Append(@, [kind |-> "batchUpdate", ok |-> FALSE,
                                              requests |-> reqs])],
               "HttpError")
    ELSE [s EXCEPT !.n = @ + 1,
                   !.remote = Applied(@, reqs),
                   !.calls = Append(@, [kind |-> "batchUpdate", ok |-> TRUE,
                                        requests |-> reqs])]

(***************************************************************************)
(* Document.fetch, batch_update, get_end_index                             *)
(***************************************************************************)
\* fetch() with include_tabs_content=True: last_index becomes the endIndex of
\* the last element of the first tab's body, when the document has tabs
Fetch(s) ==
    LET s1 == RemoteGet(s)
    IN  IF s1.raised THEN s1
        ELSE IF s1.remote.has_tabs
        THEN [s1 EXCEPT !.last_index = <<s1.remote.end_index>>]
        ELSE s1

\* batch_update without the fetch that refreshes last_index
BatchUpdateNoRefresh(s, reqs) == RemoteBatchUpdate(s, reqs)

BatchUpdate(s, reqs) == Fetch(RemoteBatchUpdate(s, reqs))

\* the session after get_end_index(); its return value is last_index[1]
GetEndIndex(s) ==
    LET s1 == IF s.last_index = <<>> THEN Fetch(s) ELSE s
    IN  IF s1.raised THEN s1
        ELSE IF s1.last_index = <<>> THEN [s1 EXCEPT !.last_index = <<1>>]
        ELSE s1

(***************************************************************************)
(* Document.insert_text, append_text                                       *)
(***************************************************************************)
\* the style dict and the update_fields list of the format options
FormatStyle(format_bold, format_italic) ==
    (IF format_bold THEN [bold |-> TRUE] ELSE <<>>)
    @@ (IF format_italic THEN [italic |-> TRUE] ELSE <<>>)

FormatFields(format_bold, format_italic) ==
    (IF format_bold THEN <<"bold">> ELSE <<>>)
    \o (IF format_italic THEN <<"italic">> ELSE <<>>)

InsertText(s, location, text, format_bold, format_italic) ==
    LET s1 == BatchUpdate(s, <<[insertText |-> [location |-> location, text |-> text]]>>)
        start == location.index
        end == start + Len(text)
        update_fields == FormatFields(format_bold, format_italic)
        format_requests ==
            << [updateTextStyle |->
                  [range |-> [segmentId |-> "", startIndex |-> start, endIndex |-> end],
                   textStyle |-> FormatStyle(format_bold, format_italic),
                   fields |-> update_fields]] >>
    IN  IF s1.raised THEN s1
        ELSE IF (format_bold \/ format_italic) /\ update_fields # <<>>
        THEN BatchUpdate(s1, format_requests)
        ELSE s1

\* the style dict and the update_fields list of the four format options; a
\* size left at None is 0 and a color left at None is the empty sequence
SizedStyle(format_bold, format_italic, format_size, format_color) ==
    FormatStyle(format_bold, format_italic)
    @@ (IF format_size # 0
        THEN [fontSize |-> [magnitude |-> format_size, unit |-> "PT"]] ELSE <<>>)
    @@ (IF format_color # <<>>
        THEN [foregroundColor |-> [color |-> format_color]] ELSE <<>>)

SizedFields(format_bold, format_italic, format_size, format_color) ==
    FormatFields(format_bold, format_italic)
    \o (IF format_size # 0 THEN <<"fontSize">> ELSE <<>>)
    \o (IF format_color # <<>> THEN <<"foregroundColor">> ELSE <<>>)

\* insert_text formatting whether or not an option is set
InsertTextSizedAlways(s, location, text, format_bold, format_italic, format_size, format_color) ==
    LET s1 == BatchUpdate(s, <<[insertText |-> [location |-> location, text |-> text]]>>)
        format_requests ==
            << [updateTextStyle |->
                  [range |-> [segmentId |-> "", startIndex |-> location.index,
                              endIndex |-> location.index + Len(text)],
                   textStyle |-> SizedStyle(format_bold, format_italic, format_size,
                                            format_color),
                   fields |-> SizedFields(format_bold, format_italic, format_size,
                                          format_color)]] >>
    IN  IF s1.raised THEN s1 ELSE BatchUpdate(s1, format_requests)

\* insert_text with all of its format options
InsertTextSized(s, location, text, format_bold, format_italic, format_size, format_color) ==
    LET s1 == BatchUpdate(s, <<[insertText |-> [location |-> location, text |-> text]]>>)
        start == location.index
        end == start + Len(text)
        update_fields == SizedFields(format_bold, format_italic, format_size,
                                     format_color)
        format_requests ==
            << [updateTextStyle |->
                  [range |-> [segmentId |-> "", startIndex |-> start, endIndex |-> end],
                   textStyle |-> SizedStyle(format_bold, format_italic, format_size,
                                            format_color),
                   fields |-> update_fields]] >>
    IN  IF s1.raised THEN s1
        ELSE IF (format_bold \/ format_italic \/ format_size # 0 \/ format_color # <<>>)
                    /\ update_fields # <<>>
        THEN BatchUpdate(s1, format_requests)
        ELSE s1

AppendText(s, tab_id, text, format_bold, format_italic) ==
    LET s1 == GetEndIndex(s)
    IN  IF s1.raised THEN s1
        ELSE InsertText(s1, [index |-> s1.last_index[1] - 1, tabId |-> tab_id],
                        text, format_bold, format_italic)

(***************************************************************************)
(* Document.insert_markdown                                                *)
(***************************************************************************)
\* the tabId annotation of one request: every key whose body has a location
\* or a range gets the tab id there
AddTabId(r, tab_id) ==
    [key \in DOMAIN r |->
        LET b1 == IF "location" \in DOMAIN r[key]
                  THEN [r[key] EXCEPT !.location = [tabId |-> tab_id] @@ @]
                  ELSE r[key]
        IN  IF "range" \in DOMAIN b1
            THEN [b1 EXCEPT !.range = [tabId |-> tab_id] @@ @]
            ELSE b1]

\* the annotation keeping only the requests that have a location
AddTabIdsToLocations(reqs, tab_id) ==
    LET kept == SelectSeq(reqs, LAMBDA r : \E key \in DOMAIN r : "location" \in DOMAIN r[key])
    IN  [i \in 1..Len(kept) |-> AddTabId(kept[i], tab_id)]

AddTabIds(reqs, tab_id) == [i \in 1..Len(reqs) |-> AddTabId(reqs[i], tab_id)]

InsertMarkdown(s, tab_id, index, markdown_soup) ==
    IF ConvertLoop(markdown_soup, index, <<>>).raised THEN Raise(s, "AttributeError")
    ELSE BatchUpdate(s, AddTabIds(ConvertToDocRequests(markdown_soup, index), tab_id))

(***************************************************************************)
(* Document.generate_answer_sheet                                          *)
(***************************************************************************)
TitleStyleRequest(title, tab_id) ==
    [updateParagraphStyle |->
        [range |-> [startIndex |-> 1, endIndex |-> 1 + Len(title), tabId |-> tab_id],
         paragraphStyle |-> [namedStyleType |-> "TITLE", alignment |-> "CENTER"],
         fields |-> <<"namedStyleType", "alignment">>]]

\* f"{problem}\t{answer}\n"
RowText(problem, answer) == problem \o <<"\t">> \o answer \o <<"\n">>

\* the loop over zip(problems, answers)
RECURSIVE AppendRows(_, _, _, _)
AppendRows(s, tab_id, problems, answers) ==
    IF problems = <<>> \/ answers = <<>> THEN s
    ELSE AppendRows(AppendText(s, tab_id, RowText(Head(problems), Head(answers)),
                               FALSE, FALSE),
                    tab_id, Tail(problems), Tail(answers))

TableHeader == <<"P", "r", "o", "b", "l", "e", "m", "\t", "A", "n", "s", "w", "e", "r", "\n">>

TableRule == <<"-", "-", "-", "-", "-", "-", "-", "\t", "-", "-", "-", "-", "-", "-", "-", "\n">>

\* generate_answer_sheet after its check of the two lengths
AnswerSheetBody(s, title, problems, answers) ==
    LET s1 == Fetch(s)
        tab_id == s1.remote.tab_id
        s2 == BatchUpdate(s1, <<[insertText |-> [location |-> [index |-> 1, tabId |-> tab_id],
                                                 text |-> <<"\n">>]]>>)
        s3 == AppendText(s2, tab_id, title \o <<"\n", "\n">>, TRUE, FALSE)
        s4 == BatchUpdate(s3, <<TitleStyleRequest(title, tab_id)>>)
        s5 == AppendText(s4, tab_id, TableHeader, FALSE, FALSE)
        s6 == AppendText(s5, tab_id, TableRule, FALSE, FALSE)
        s7 == AppendRows(s6, tab_id, problems, answers)
    IN  IF s1.raised THEN s1
        ELSE IF ~s1.remote.has_tabs THEN Raise(s1, "ValueError")
        ELSE Fetch(s7)

\* generate_answer_sheet without the check, zip() truncating the longer list
GenerateAnswerSheetUnchecked(s, title, problems, answers) ==
    AnswerSheetBody(s, title, problems, answers)

GenerateAnswerSheet(s, title, problems, answers) ==
    IF Len(problems) # Len(answers) THEN Raise(s, "ValueError")
    ELSE AnswerSheetBody(s, title, problems, answers)

(***************************************************************************)
(* The Document as a state machine: one step per method call.              *)
(***************************************************************************)
\* the end index of an empty document, and of one holding a character
RemoteEnds == {2, 3}

InitDoc ==
    /\ blocks = <<>>
    /\ start_index = 1
    /\ pos = 1
    /\ insertion_index = 1
    /\ requests = <<>>
    /\ block_requests = <<>>
    /\ pc = "idle"
    /\ last_index = <<>>
    /\ remote \in {[has_tabs |-> TRUE, tab_id |-> "t.0", end_index |-> e] :
                        e \in RemoteEnds}
                  \cup {[has_tabs |-> FALSE, tab_id |-> "t.0", end_index |-> 2]}
    /\ calls = <<>>
    /\ ops = <<>>
    /\ md_text = <<>>
    /\ method = "idle"
    /\ arg = 0
    /\ returned = <<>>

FailedCalls == Len(SelectSeq(calls, LAMBDA c : ~c.ok))

\* the ways a method making n calls may go: no call raises, or one does
Plans(n) ==
    {<<0, FALSE>>}
    \cup (IF FailedCalls < MaxFailures THEN (1..n) \X BOOLEAN ELSE {})

\* a method call that leaves the session s
Method(name, args, s) ==
    /\ Len(ops) < MaxOps
    /\ remote' = s.remote
    /\ last_index' = s.last_index
    /\ calls' = s.calls
    /\ ops' = Append(ops, [name |-> name, args |-> args, raised |-> s.raised,
                           error |-> s.error, first |-> Len(calls) + 1])
    /\ UNCHANGED cvars
    /\ UNCHANGED rvars

DoFetch ==
    \E plan \in Plans(Fetch(NewSession(0, FALSE)).n) :
        Method("fetch", <<>>, Fetch(NewSession(plan[1], plan[2])))

DoGetEndIndex ==
    \E plan \in Plans(GetEndIndex(NewSession(0, FALSE)).n) :
        Method("get_end_index", <<>>, GetEndIndex(NewSession(plan[1], plan[2])))

AppendTexts == {<<"x", "\n">>}

DoAppendText ==
    \E text \in AppendTexts, format_bold \in BOOLEAN :
        \E plan \in Plans(AppendText(NewSession(0, FALSE), remote.tab_id, text,
                                     format_bold, FALSE).n) :
            Method("append_text", [text |-> text, format_bold |-> format_bold],
                   AppendText(NewSession(plan[1], plan[2]), remote.tab_id, text,
                              format_bold, FALSE))

MarkdownInputs == {ExampleDoc, <<E("ol", <<NL, TightItem, NL, LooseItem, NL>>)>>}

DoInsertMarkdown ==
    \E soup \in MarkdownInputs, index \in {1} :
        \E plan \in Plans(InsertMarkdown(NewSession(0, FALSE), remote.tab_id, index, soup).n) :
            Method("insert_markdown",
                   [tab_id |-> remote.tab_id, index |-> index, soup |-> soup],
                   InsertMarkdown(NewSession(plan[1], plan[2]), remote.tab_id, index, soup))

Titles == {<<"K", "e", "y">>}

ProblemLists == {[i \in 1..MaxProblems |-> <<"1">>]}

\* one answer too few, as many answers as problems, one too many
AnswerLists == {[i \in 1..n |-> <<"x">>] : n \in (MaxProblems - 1)..(MaxProblems + 1)}

DoGenerateAnswerSheet ==
    \E title \in Titles, problems \in ProblemLists, answers \in AnswerLists :
        \E plan \in Plans(GenerateAnswerSheet(NewSession(0, FALSE), title,
                                              problems, answers).n) :
            Method("generate_answer_sheet",
                   [title |-> title, problems |-> problems, answers |-> answers],
                   GenerateAnswerSheet(NewSession(plan[1], plan[2]), title,
                                       problems, answers))

NextDoc ==
    \/ DoFetch
    \/ DoGetEndIndex
    \/ DoAppendText
    \/ DoInsertMarkdown
    \/ DoGenerateAnswerSheet

SpecDoc == InitDoc /\ [][NextDoc]_vars

\* the calls made on docs_service by the k-th method call
CallsOf(k) ==
    SubSeq(calls, ops[k].first,
           IF k < Len(ops) THEN ops[k + 1].first - 1 ELSE Len(calls))

(***************************************************************************)
(* C8: insert_markdown sends one batchUpdate, whose requests are the       *)
(* compiler's requests in the compiler's order, each with the tab id added *)
(* and nothing else changed.                                               *)
(***************************************************************************)
\* a request without the tabId of its location or range
WithoutTabId(r) ==
    [key \in DOMAIN r |->
        [f \in DOMAIN r[key] |->
            IF f \in {"location", "range"}
            THEN [g \in DOMAIN r[key][f] \ {"tabId"} |-> r[key][f][g]]
            ELSE r[key][f]]]

TabIdOf(r) ==
    LET key == CHOOSE k \in DOMAIN r : TRUE
        f == CHOOSE g \in DOMAIN r[key] : g \in {"location", "range"}
    IN  r[key][f].tabId

C8_InsertMarkdownKeepsOrder ==
    \A k \in 1..Len(ops) :
        ops[k].name = "insert_markdown" =>
            LET compiled == ConvertToDocRequests(ops[k].args.soup, ops[k].args.index)
                batches == SelectSeq(CallsOf(k), LAMBDA c : c.kind = "batchUpdate")
            IN  /\ Len(batches) = 1
                /\ Len(batches[1].requests) = Len(compiled)
                /\ \A i \in 1..Len(compiled) :
                      /\ WithoutTabId(batches[1].requests[i]) = compiled[i]
                      /\ TabIdOf(batches[1].requests[i]) = ops[k].args.tab_id

\* insert_markdown has sent the four requests of the example and returned
C8_Witness ==
    \E k \in 1..Len(ops) :
        /\ ops[k].name = "insert_markdown"
        /\ ops[k].args.soup = ExampleDoc
        /\ ~ops[k].raised
        /\ \E c \in {CallsOf(k)[i] : i \in 1..Len(CallsOf(k))} :
              c.kind = "batchUpdate" /\ c.ok /\ Len(c.requests) = 4

(***************************************************************************)
(* C9: a failed batchUpdate is not retried, and an append_text that comes  *)
(* after it queries the remote end index anew instead of using the         *)
(* last_index cached before the failure.                                   *)
(***************************************************************************)
FailedBatch(i) == calls[i].kind = "batchUpdate" /\ ~calls[i].ok

\* the method that made call i made no call after it
LastCallOfItsMethod(i) ==
    i = Len(calls) \/ \E k \in 1..Len(ops) : ops[k].first = i + 1

\* no fetch has succeeded between call i and call j
NoFetchBetween(i, j) ==
    \A m \in (i + 1)..(j - 1) : ~(calls[m].kind = "get" /\ calls[m].ok)

C9_RequeryAfterFailure ==
    /\ \A i \in 1..Len(calls) : FailedBatch(i) => LastCallOfItsMethod(i)
    /\ \A k \in 1..Len(ops) :
          (/\ ops[k].name = "append_text"
           /\ \E i \in 1..(ops[k].first - 1) :
                 FailedBatch(i) /\ NoFetchBetween(i, ops[k].first))
          => /\ CallsOf(k) # <<>>
             /\ CallsOf(k)[1].kind = "get"

(***************************************************************************)
(* C10: generate_answer_sheet with problems and answers of unequal length  *)
(* raises a ValueError without any call on docs_service and leaves         *)
(* last_index as it was.                                                   *)
(***************************************************************************)
MismatchedCall ==
    /\ Len(ops') = Len(ops) + 1
    /\ ops'[Len(ops')].name = "generate_answer_sheet"
    /\ Len(ops'[Len(ops')].args.problems) # Len(ops'[Len(ops')].args.answers)

C10_MismatchIsFatal ==
    [][MismatchedCall =>
            /\ ops'[Len(ops')].raised
            /\ ops'[Len(ops')].error = "ValueError"
            /\ calls' = calls
            /\ remote' = remote
            /\ last_index' = last_index]_vars

\* a mismatched call made after last_index was cached
C10_Witness ==
    /\ Len(ops) = 2
    /\ last_index # <<>>
    /\ ops[2].name = "generate_answer_sheet"
    /\ Len(ops[2].args.problems) # Len(ops[2].args.answers)
    /\ ops[2].raised

(***************************************************************************)
(* Document.create_header                                                  *)
(***************************************************************************)
\* doc.get('body', {}).get('content', []): a response that carries tabs has
\* no top-level body, one without tabs carries the body itself
BodyEndIndex(rem) == IF rem.has_tabs THEN 1 ELSE rem.end_index

\* the if/elif chain over level, with NORMAL_TEXT for a level out of range
HeaderStyleNameUnclamped(level) ==
    CASE level = 1 -> "HEADING_1" [] level = 2 -> "HEADING_2"
      [] level = 3 -> "HEADING_3" [] level = 4 -> "HEADING_4"
      [] level = 5 -> "HEADING_5" [] level = 6 -> "HEADING_6"
      [] OTHER -> "NORMAL_TEXT"

\* the if/elif chain over level
HeaderStyleName(level) ==
    CASE level = 1 -> "HEADING_1" [] level = 2 -> "HEADING_2"
      [] level = 3 -> "HEADING_3" [] level = 4 -> "HEADING_4"
      [] level = 5 -> "HEADING_5" [] level = 6 -> "HEADING_6"
      [] OTHER -> "HEADING_1"

\* create_header styling the header text without its newline
CreateHeaderTextOnly(s, text, level) ==
    LET s1 == Fetch(s)
        end_index == BodyEndIndex(s1.remote)
        insert_request ==
            [insertText |-> [location |-> [index |-> end_index - 1],
                             text |-> text \o <<"\n">>]]
        style_request ==
            [updateParagraphStyle |->
                [range |-> [startIndex |-> end_index - 1,
                            endIndex |-> end_index - 1 + Len(text)],
                 paragraphStyle |-> [namedStyleType |-> HeaderStyleName(level)],
                 fields |-> <<"namedStyleType">>]]
    IN  IF s1.raised THEN s1
        ELSE BatchUpdate(BatchUpdate(s1, <<insert_request>>), <<style_request>>)

CreateHeader(s, text, level) ==
    LET s1 == Fetch(s)
        end_index == BodyEndIndex(s1.remote)
        insert_request ==
            [insertText |-> [location |-> [index |-> end_index - 1],
                             text |-> text \o <<"\n">>]]
        style_request ==
            [updateParagraphStyle |->
                [range |-> [startIndex |-> end_index - 1,
                            endIndex |-> end_index + Len(text)],
                 paragraphStyle |-> [namedStyleType |-> HeaderStyleName(level)],
                 fields |-> <<"namedStyleType">>]]
    IN  IF s1.raised THEN s1
        ELSE BatchUpdate(BatchUpdate(s1, <<insert_request>>), <<style_request>>)

(***************************************************************************)
(* Document.create_table, insert_image, add_math_equation.  An argument    *)
(* left at None is the empty sequence (headers) or 0 (width, height).      *)
(***************************************************************************)
\* the two requests, insertText and updateTextStyle, of the i-th header
\* (i counted from 0)
HeaderCellRequests(table_start_index, i, header) ==
    << [insertText |-> [location |-> [index |-> table_start_index + (i * 2) + 2],
                        text |-> header]],
       [updateTextStyle |->
           [range |-> [startIndex |-> table_start_index + (i * 2) + 2,
                       endIndex |-> table_start_index + (i * 2) + 2 + Len(header)],
            textStyle |-> [bold |-> TRUE],
            fields |-> <<"bold">>]] >>

CreateTable(s, rows, cols, headers) ==
    LET s1 == Fetch(s)
        end_index == BodyEndIndex(s1.remote)
        insert_newline ==
            [insertText |-> [location |-> [index |-> end_index - 1], text |-> <<"\n">>]]
        create_table ==
            [insertTable |-> [location |-> [index |-> end_index],
                              rows |-> rows + (IF headers # <<>> THEN 1 ELSE 0),
                              columns |-> cols]]
        s2 == BatchUpdate(s1, <<insert_newline, create_table>>)
        header_requests ==
            Flatten([i \in 1..Len(headers) |->
                        HeaderCellRequests(end_index, i - 1, headers[i])])
    IN  IF s1.raised THEN s1
        ELSE IF s2.raised THEN s2
        ELSE IF headers # <<>> /\ Len(headers) <= cols
        THEN BatchUpdate(s2, header_requests)
        ELSE s2

InsertImage(s, uri, width, height) ==
    LET s1 == Fetch(s)
        end_index == BodyEndIndex(s1.remote)
        location == [index |-> end_index - 1]
        insert_image ==
            IF width # 0 /\ height # 0
            THEN [insertInlineImage |->
                    [location |-> location, uri |-> uri,
                     objectSize |-> [width |-> [magnitude |-> width, unit |-> "EMU"],
                                     height |-> [magnitude |-> height, unit |-> "EMU"]]]]
            ELSE [insertInlineImage |-> [location |-> location, uri |-> uri]]
    IN  IF s1.raised THEN s1
        ELSE BatchUpdate(s1, <<insert_image>>)

\* f"[Math Equation: {latex}]\n"
EquationText(latex) ==
    <<"[", "M", "a", "t", "h", " ", "E", "q", "u", "a", "t", "i", "o", "n", ":", " ">>
    \o latex \o <<"]", "\n">>

AddMathEquation(s, latex) ==
    LET s1 == Fetch(s)
        end_index == BodyEndIndex(s1.remote)
        insert_text ==
            [insertText |-> [location |-> [index |-> end_index - 1],
                             text |-> EquationText(latex)]]
    IN  IF s1.raised THEN s1
        ELSE BatchUpdate(s1, <<insert_text>>)

(***************************************************************************)
(* Document.create_worksheet                                               *)
(***************************************************************************)
\* str(n) for n >= 0
RECURSIVE DecimalOf(_)
DecimalOf(n) ==
    IF n < 10 THEN <<<<"0", "1", "2", "3", "4", "5", "6", "7", "8", "9">>[n + 1]>>
    ELSE DecimalOf(n \div 10) \o DecimalOf(n % 10)

\* f"{i}. {problem}\n\n"
ProblemText(i, problem) == DecimalOf(i) \o <<".", " ">> \o problem \o <<"\n", "\n">>

PageSizeRequest(width, height) ==
    [updateDocumentStyle |->
        [documentStyle |->
            [pageSize |-> [width |-> [magnitude |-> width, unit |-> "PT"],
                           height |-> [magnitude |-> height, unit |-> "PT"]]],
         fields |-> <<"pageSize">>]]

\* the loop over enumerate(problems, 1), from the i-th problem on
RECURSIVE AppendProblems(_, _, _, _)
AppendProblems(s, tab_id, problems, i) ==
    IF i > Len(problems) THEN s
    ELSE AppendProblems(AppendText(s, tab_id, ProblemText(i, problems[i]), FALSE, FALSE),
                        tab_id, problems, i + 1)

CreateWorksheet(s, title, problems, width, height) ==
    LET s1 == Fetch(s)
        tab_id == s1.remote.tab_id
        s2 == BatchUpdate(s1, <<PageSizeRequest(width, height)>>)
        s3 == BatchUpdate(s2, <<[insertText |-> [location |-> [index |-> 1, tabId |-> tab_id],
                                                 text |-> <<"\n">>]]>>)
        s4 == AppendText(s3, tab_id, title \o <<"\n", "\n">>, TRUE, FALSE)
        s5 == BatchUpdate(s4, <<TitleStyleRequest(title, tab_id)>>)
        s6 == AppendProblems(s5, tab_id, problems, 1)
    IN  IF s1.raised THEN s1
        ELSE IF ~s1.remote.has_tabs THEN Raise(s1, "ValueError")
        ELSE Fetch(s6)

(***************************************************************************)
(* create_header as a state machine: one step per call.                    *)
(***************************************************************************)
HeaderTexts == {<<"H">>}

\* the levels of a heading, one below the lowest and one above the highest
HeaderLevels == {0, 1, 2, 6, 7}

DoCreateHeader ==
    \E text \in HeaderTexts, level \in HeaderLevels :
        \E plan \in Plans(CreateHeader(NewSession(0, FALSE), text, level).n) :
            Method("create_header", [text |-> text, level |-> level],
                   CreateHeader(NewSession(plan[1], plan[2]), text, level))

NextHeader ==
    \/ DoFetch
    \/ DoCreateHeader

SpecHeader == InitDoc /\ [][NextHeader]_vars

(***************************************************************************)
(* insert_text as a state machine: one step per call, with every           *)
(* combination of its format options.                                      *)
(***************************************************************************)
\* the format options of a call: none, each one alone, all four; the size is
\* 12 points and the color red
Red == [red |-> 1, green |-> 0, blue |-> 0]

FormatOptions ==
    { [format_bold |-> FALSE, format_italic |-> FALSE, format_size |-> 0, format_color |-> <<>>],
      [format_bold |-> TRUE, format_italic |-> FALSE, format_size |-> 0, format_color |-> <<>>],
      [format_bold |-> FALSE, format_italic |-> TRUE, format_size |-> 0, format_color |-> <<>>],
      [format_bold |-> FALSE, format_italic |-> FALSE, format_size |-> 12, format_color |-> <<>>],
      [format_bold |-> FALSE, format_italic |-> FALSE, format_size |-> 0, format_color |-> Red],
      [format_bold |-> TRUE, format_italic |-> TRUE, format_size |-> 12, format_color |-> Red] }

DoInsertText ==
    \E text \in AppendTexts, o \in FormatOptions :
        \E plan \in Plans(InsertTextSized(NewSession(0, FALSE),
                                          [index |-> 1, tabId |-> remote.tab_id], text,
                                          o.format_bold, o.format_italic, o.format_size,
                                          o.format_color).n) :
            Method("insert_text",
                   [location |-> [index |-> 1, tabId |-> remote.tab_id], text |-> text]
                        @@ o,
                   InsertTextSized(NewSession(plan[1], plan[2]),
                                   [index |-> 1, tabId |-> remote.tab_id], text,
                                   o.format_bold, o.format_italic, o.format_size,
                                   o.format_color))

NextInsert == DoInsertText

SpecInsert == InitDoc /\ [][NextInsert]_vars

(***************************************************************************)
(* The worksheet and the answer sheet as a state machine: one step per     *)
(* call, on a document that may already hold appended text.                *)
(***************************************************************************)
DoCreateWorksheet ==
    \E title \in Titles, problems \in ProblemLists :
        \E plan \in Plans(CreateWorksheet(NewSession(0, FALSE), title, problems,
                                          500, 700).n) :
            Method("create_worksheet", [title |-> title, problems |-> problems],
                   CreateWorksheet(NewSession(plan[1], plan[2]), title, problems,
                                   500, 700))

NextSheet ==
    \/ DoAppendText
    \/ DoCreateWorksheet
    \/ DoGenerateAnswerSheet

SpecSheet == InitDoc /\ [][NextSheet]_vars

(***************************************************************************)
(* The methods that insert at the end of the document, as a state machine: *)
(* one step per call.                                                      *)
(***************************************************************************)
\* no headers, as many headers as columns, more headers than columns
TableHeaders == {<<>>, <<<<"h">>>>, <<<<"h">>, <<"h">>>>}

DoCreateTable ==
    \E headers \in TableHeaders :
        \E plan \in Plans(CreateTable(NewSession(0, FALSE), 1, 1, headers).n) :
            Method("create_table", [rows |-> 1, cols |-> 1, headers |-> headers],
                   CreateTable(NewSession(plan[1], plan[2]), 1, 1, headers))

\* an image without a size, and one 1 EMU wide and high
DoInsertImage ==
    \E size \in {0, 1} :
        \E plan \in Plans(InsertImage(NewSession(0, FALSE), <<"u">>, size, size).n) :
            Method("insert_image", [uri |-> <<"u">>, width |-> size, height |-> size],
                   InsertImage(NewSession(plan[1], plan[2]), <<"u">>, size, size))

DoAddMathEquation ==
    \E plan \in Plans(AddMathEquation(NewSession(0, FALSE), <<"x">>).n) :
        Method("add_math_equation", [latex |-> <<"x">>],
               AddMathEquation(NewSession(plan[1], plan[2]), <<"x">>))

NextEnd ==
    \/ DoFetch
    \/ DoCreateHeader
    \/ DoCreateTable
    \/ DoInsertImage
    \/ DoAddMathEquation

SpecEnd == InitDoc /\ [][NextEnd]_vars

(***************************************************************************)
(* C11: a heading level outside 1..6 gives the paragraph style HEADING_1   *)
(* and raises nothing, and a level in 1..6 gives HEADING_<level>, both in  *)
(* _process_heading and in create_header.                                  *)
(***************************************************************************)
NormalizedHeading(level) ==
    IF level \in 1..6
    THEN <<"HEADING_1", "HEADING_2", "HEADING_3",
           "HEADING_4", "HEADING_5", "HEADING_6">>[level]
    ELSE "HEADING_1"

\* the paragraph-style requests sent by the k-th method call
ParagraphStylesSent(k) ==
    LET sent == Flatten([i \in 1..Len(CallsOf(k)) |-> CallsOf(k)[i].requests])
    IN  SelectSeq(sent, IsParagraphStyle)

C11_HeadingClamp ==
    /\ \A level \in 0..7 :
          HeadingStyleName(ClampLevel(level)) = NormalizedHeading(level)
    /\ \A h \in HeadingTags :
          LET r == ProcessHeading(E(h, <<T(<<"a">>)>>), 1).requests
          IN  SelectSeq(r, IsParagraphStyle)[1].updateParagraphStyle.paragraphStyle.namedStyleType
                = NormalizedHeading(LevelOfName(h))
    /\ \A k \in 1..Len(ops) :
          ops[k].name = "create_header" =>
              /\ ops[k].raised => ops[k].error = "HttpError"
              /\ ops[k].raised <=> \E i \in 1..Len(CallsOf(k)) : ~CallsOf(k)[i].ok
              /\ ~ops[k].raised => Len(ParagraphStylesSent(k)) = 1
              /\ \A i \in 1..Len(ParagraphStylesSent(k)) :
                    ParagraphStylesSent(k)[i].updateParagraphStyle.paragraphStyle.namedStyleType
                        = NormalizedHeading(ops[k].args.level)

\* create_header has returned for a level below 1 and for a level above 6
C11_Witness ==
    /\ Len(ops) = 2
    /\ ops[1].name = "create_header" /\ ops[1].args.level = 0 /\ ~ops[1].raised
    /\ ops[2].name = "create_header" /\ ops[2].args.level = 7 /\ ~ops[2].raised
    /\ Len(ParagraphStylesSent(2)) = 1

(***************************************************************************)
(* The regular expressions of MarkdownFormatter.  Offsets are Python's:    *)
(* zero-based, a match covering [start, end).  A match is a record with    *)
(* its bounds and the bounds g1, g2 of its groups (empty when the pattern  *)
(* has no such group).                                                     *)
(***************************************************************************)
\* s[a:b]
Slice(s, a, b) == SubSeq(s, a + 1, b)

Min(S) == CHOOSE x \in S : \A y \in S : x <= y

\* \s and \d
Whitespace == {" ", "\n", "\t"}

Digits == {"0", "1", "2", "3", "4", "5", "6", "7", "8", "9"}

\* the grave accent (U+0060) that delimits inline code; a TLA+ string cannot
\* hold that character, so it is written as the one-element text "bq"
Backquote == "bq"

\* the length of the longest run of characters of S that starts at offset i
RECURSIVE RunLen(_, _, _)
RunLen(s, i, S) ==
    IF i < Len(s) /\ s[i + 1] \in S THEN 1 + RunLen(s, i + 1, S) ELSE 0

\* '.' matches every character of s[a:b]: none of them is a newline
NoNewline(s, a, b) == \A k \in (a + 1)..b : s[k] # "\n"

\* '^' under re.MULTILINE
AtLineStart(s, i) == i = 0 \/ s[i] = "\n"

MatchOf(start, end, g1, g2) == [start |-> start, end |-> end, g1 |-> g1, g2 |-> g2]

\* d(.*?)d at offset i, for the delimiter d: the nearest closing delimiter
DelimitedAt(s, i, d) ==
    LET n == Len(d)
        closes == {j \in (i + n)..(Len(s) - n) :
                      Slice(s, j, j + n) = d /\ NoNewline(s, i + n, j)}
    IN  IF i + n <= Len(s) /\ Slice(s, i, i + n) = d /\ closes # {}
        THEN <<MatchOf(i, Min(closes) + n, <<i + n, Min(closes)>>, <<i, i>>)>>
        ELSE <<>>

\* \[(.*?)\]\((.*?)\) at offset i
LinkAt(s, i) ==
    LET closing(j) == {k \in (j + 2)..(Len(s) - 1) :
                          s[k + 1] = ")" /\ NoNewline(s, j + 2, k)}
        mids == {j \in (i + 1)..(Len(s) - 2) :
                    /\ s[j + 1] = "]"
                    /\ s[j + 2] = "("
                    /\ NoNewline(s, i + 1, j)
                    /\ closing(j) # {}}
        j == Min(mids)
        k == Min(closing(j))
    IN  IF i < Len(s) /\ s[i + 1] = "[" /\ mids # {}
        THEN <<MatchOf(i, k + 1, <<i + 1, j>>, <<j + 2, k>>)>>
        ELSE <<>>

\* ^#{1,6}\s+ at offset i
HeaderAt(s, i) ==
    LET h == RunLen(s, i, {"#"})
        w == RunLen(s, i + h, Whitespace)
    IN  IF AtLineStart(s, i) /\ h \in 1..6 /\ w >= 1
        THEN <<MatchOf(i, i + h + w, <<i, i>>, <<i, i>>)>>
        ELSE <<>>

\* ^\s*\d+\.\s+ at offset i
OrderedAt(s, i) ==
    LET w0 == RunLen(s, i, Whitespace)
        d == RunLen(s, i + w0, Digits)
        dot == i + w0 + d
        w == RunLen(s, dot + 1, Whitespace)
    IN  IF AtLineStart(s, i) /\ d >= 1 /\ dot < Len(s) /\ s[dot + 1] = "." /\ w >= 1
        THEN <<MatchOf(i, dot + 1 + w, <<i, i>>, <<i, i>>)>>
        ELSE <<>>

\* ^\s*[\*\-\+]\s+ at offset i
UnorderedAt(s, i) ==
    LET w0 == RunLen(s, i, Whitespace)
        mark == i + w0
        w == RunLen(s, mark + 1, Whitespace)
    IN  IF AtLineStart(s, i) /\ mark < Len(s) /\ s[mark + 1] \in {"*", "-", "+"} /\ w >= 1
        THEN <<MatchOf(i, mark + 1 + w, <<i, i>>, <<i, i>>)>>
        ELSE <<>>

\* the match of a pattern at offset i: <<>> or <<match>>
MatchAt(pat, s, i) ==
    CASE pat = "bold" -> DelimitedAt(s, i, <<"*", "*">>)
      [] pat = "italic" -> DelimitedAt(s, i, <<"*">>)
      [] pat = "code" -> DelimitedAt(s, i, <<Backquote>>)
      [] pat = "link" -> LinkAt(s, i)
      [] pat = "header" -> HeaderAt(s, i)
      [] pat = "ordered" -> OrderedAt(s, i)
      [] pat = "unordered" -> UnorderedAt(s, i)

\* F applied to the value of v.  An operator's argument is evaluated where
\* the parameter occurs; bound to x, it is evaluated once.
ByValue(F(_), v) == CHOOSE r \in {F(x) : x \in {v}} : TRUE

\* the leftmost non-overlapping matches from offset i on: m is the match at
\* i, if any
RECURSIVE Scan(_, _, _)
ScanOn(pat, s, i, m) ==
    IF m = <<>> THEN Scan(pat, s, i + 1)
    ELSE m \o Scan(pat, s, m[1].end)

Scan(pat, s, i) ==
    IF i >= Len(s) THEN <<>>
    ELSE ByValue(LAMBDA a :
                    ByValue(LAMBDA m : ScanOn(pat, a.s, a.i, m),
                            MatchAt(pat, a.s, a.i)),
                 [s |-> s, i |-> i])

\* pattern.finditer(s)
FindIter(pat, s) == ByValue(LAMBDA x : Scan(pat, x, 0), s)

\* whether re.sub keeps the character at the (one-based) position k: it is
\* outside every match of ms, or in group 1 of its match
IsKept(ms, k) ==
    \A m \in 1..Len(ms) :
        (ms[m].start < k /\ k <= ms[m].end)
            => (ms[m].g1[1] < k /\ k <= ms[m].g1[2])

\* the (one-based) positions of the characters re.sub keeps
KeptIndices(pat, s) ==
    ByValue(LAMBDA a :
                SelectSeq([k \in 1..a.n |-> k], LAMBDA k : IsKept(a.ms, k)),
            [n |-> Len(s), ms |-> FindIter(pat, s)])

\* re.sub with group 1 as the replacement, and with the empty replacement
\* for the patterns that have no group
ReSub(pat, s) ==
    ByValue(LAMBDA x :
                ByValue(LAMBDA kept : [k \in 1..Len(kept) |-> x[kept[k]]],
                        KeptIndices(pat, x)),
            s)

(***************************************************************************)
(* MarkdownFormatter._remove_markdown_syntax                               *)
(***************************************************************************)
RemoveMarkdownSyntax(t) ==
    ReSub("unordered", ReSub("ordered", ReSub("link", ReSub("code",
        ReSub("italic", ReSub("bold", ReSub("header", t)))))))

(***************************************************************************)
(* MarkdownFormatter._identify_all_spans                                   *)
(***************************************************************************)
\* the matches of the four inline patterns, those of the italic pattern
\* kept wherever they lie
InlineMatchesUnfiltered(t) ==
    [bold |-> FindIter("bold", t), italic |-> FindIter("italic", t),
     code |-> FindIter("code", t), link |-> FindIter("link", t)]

\* the matches of the four inline patterns, those of the italic pattern
\* that lie inside a match of the bold one left out
InlineMatches(t) ==
    ByValue(LAMBDA a :
                [bold |-> a.bold,
                 italic |-> SelectSeq(a.italic, LAMBDA m :
                               ~\E b \in 1..Len(a.bold) :
                                   a.bold[b].start <= m.start /\ a.bold[b].end >= m.end),
                 code |-> a.code,
                 link |-> a.link],
            [bold |-> FindIter("bold", t), italic |-> FindIter("italic", t),
             code |-> FindIter("code", t), link |-> FindIter("link", t)])

SpanOf(start, end, style) == [start |-> start, end |-> end, style |-> style]

\* list.sort(key=lambda x: x[0]): a stable sort by the start of the span
\* the first position of a span whose start is the least
FirstLeast(spans) ==
    Min({j \in 1..Len(spans) :
            \A k \in 1..Len(spans) : spans[j].start <= spans[k].start})

RECURSIVE SortByStart(_)
SortByStart(spans) ==
    IF spans = <<>> THEN <<>>
    ELSE ByValue(LAMBDA a :
                    <<a.spans[a.i]>>
                    \o SortByStart(SubSeq(a.spans, 1, a.i - 1)
                                    \o SubSeq(a.spans, a.i + 1, Len(a.spans))),
                 [spans |-> spans, i |-> FirstLeast(spans)])

\* the spans in the order the four loops append them
SpansOf(t, ms) ==
    [i \in 1..Len(ms.bold) |->
        SpanOf(ms.bold[i].start + 2, ms.bold[i].end - 2, [bold |-> TRUE])]
    \o [i \in 1..Len(ms.italic) |->
        SpanOf(ms.italic[i].start + 1, ms.italic[i].end - 1, [italic |-> TRUE])]
    \o [i \in 1..Len(ms.code) |->
        SpanOf(ms.code[i].start + 1, ms.code[i].end - 1, CodeStyle)]
    \o [i \in 1..Len(ms.link) |->
        SpanOf(ms.link[i].start, ms.link[i].end,
               [link |-> [url |-> Slice(t, ms.link[i].g2[1], ms.link[i].g2[2])]])]

IdentifyAllSpans(t) ==
    ByValue(LAMBDA a : ByValue(LAMBDA spans : SortByStart(spans), SpansOf(a.t, a.ms)),
            [t |-> t, ms |-> InlineMatches(t)])

(***************************************************************************)
(* MarkdownFormatter._count_preceding_syntax_chars                         *)
(***************************************************************************)
RECURSIVE SumSeq(_)
SumSeq(ns) == IF ns = <<>> THEN 0 ELSE Head(ns) + SumSeq(Tail(ns))

\* the count of one delimited match, the closing delimiter left out when
\* the match ends exactly at the position
DelimiterCountEndExcluded(m, position, n) ==
    IF m.start < position
    THEN (IF m.end >= position THEN n ELSE 2 * n)
    ELSE 0

\* the count of one delimited match: its opening delimiter when the position
\* is inside the match, both delimiters when the match ends before it
DelimiterCount(m, position, n) ==
    IF m.start < position
    THEN (IF m.end > position THEN n ELSE 2 * n)
    ELSE 0

LinkCount(m, position) ==
    LET text_part_len == m.g1[2] - m.g1[1]
        url_part_len == m.g2[2] - m.g2[1]
        url_chars_passed == position - (m.start + 1 + text_part_len + 2)
    IN  IF m.start < position
        THEN IF m.end > position
             THEN IF m.start + 1 + text_part_len + 1 < position
                  THEN 3 + (IF url_chars_passed > 0
                            THEN (IF url_chars_passed < url_part_len
                                  THEN url_chars_passed ELSE url_part_len)
                            ELSE 0)
                  ELSE 1
             ELSE 4 + url_part_len
        ELSE 0

\* the counts of the matches ms before the position, one per match
SyntaxCounts(ms, position) ==
    [i \in 1..Len(ms.bold) |-> DelimiterCount(ms.bold[i], position, 2)]
    \o [i \in 1..Len(ms.italic) |-> DelimiterCount(ms.italic[i], position, 1)]
    \o [i \in 1..Len(ms.code) |-> DelimiterCount(ms.code[i], position, 1)]
    \o [i \in 1..Len(ms.link) |-> LinkCount(ms.link[i], position)]

CountPrecedingSyntaxChars(t, position) ==
    ByValue(LAMBDA a : ByValue(LAMBDA counts : SumSeq(counts),
                               SyntaxCounts(a.ms, a.position)),
            [ms |-> InlineMatches(t), position |-> position])

(***************************************************************************)
(* MarkdownFormatter.create_text_insertion_requests                        *)
(***************************************************************************)
\* the keys of a style dict, in the order the dict was built
StyleFields(style) ==
    IF "bold" \in DOMAIN style THEN <<"bold">>
    ELSE IF "italic" \in DOMAIN style THEN <<"italic">>
    ELSE IF "link" \in DOMAIN style THEN <<"link">>
    ELSE <<"weightedFontFamily", "backgroundColor">>

\* the cleaned text inserted as it is, blank or not
CleanedTextRaw(t) == RemoveMarkdownSyntax(t)

\* the text inserted in place of a cleaned text that is blank
CleanedText(t) ==
    ByValue(LAMBDA cleaned_text :
                IF Strip(cleaned_text) = <<>> THEN <<" ">> ELSE cleaned_text,
            RemoveMarkdownSyntax(t))

\* the request of one match of the link pattern, built whether or not its
\* text is found in the cleaned text
LinkRequestOfUnchecked(t, m, cleaned_text, index) ==
    LET text_part == Slice(t, m.g1[1], m.g1[2])
        url_part == Slice(t, m.g2[1], m.g2[2])
        text_in_cleaned == Find(cleaned_text, text_part)
    IN  << [updateTextStyle |->
              [range |-> [startIndex |-> index + text_in_cleaned,
                          endIndex |-> index + text_in_cleaned + Len(text_part)],
               textStyle |-> [link |-> [url |-> url_part]],
               fields |-> <<"link">>]] >>

\* the request of one match of the link pattern: none when its text is not
\* found in the cleaned text
LinkRequestOf(t, m, cleaned_text, index) ==
    LET text_part == Slice(t, m.g1[1], m.g1[2])
        url_part == Slice(t, m.g2[1], m.g2[2])
        text_in_cleaned == Find(cleaned_text, text_part)
    IN  IF text_in_cleaned >= 0
        THEN << [updateTextStyle |->
                   [range |-> [startIndex |-> index + text_in_cleaned,
                               endIndex |-> index + text_in_cleaned + Len(text_part)],
                    textStyle |-> [link |-> [url |-> url_part]],
                    fields |-> <<"link">>]] >>
        ELSE <<>>

\* the request of one span: none for a link span and for an invalid range
SpanRequestOf(t, span, cleaned_text, index) ==
    IF "link" \in DOMAIN span.style THEN <<>>
    ELSE ByValue(LAMBDA a :
                    IF a.clean_start >= a.clean_end \/ a.clean_start < 0
                            \/ a.clean_end > Len(cleaned_text)
                    THEN <<>>
                    ELSE << [updateTextStyle |->
                               [range |-> [startIndex |-> index + a.clean_start,
                                           endIndex |-> index + a.clean_end],
                                textStyle |-> span.style,
                                fields |-> StyleFields(span.style)]] >>,
                 [clean_start |-> span.start - CountPrecedingSyntaxChars(t, span.start),
                  clean_end |-> span.end - CountPrecedingSyntaxChars(t, span.end)])

\* the requests of the link matches, then those of the spans
StyleRequestsOf(t, link_matches, spans, cleaned_text, index) ==
    ByValue(LAMBDA rs : Flatten(rs),
            [i \in 1..Len(link_matches) |->
                LinkRequestOf(t, link_matches[i], cleaned_text, index)]
            \o [i \in 1..Len(spans) |->
                SpanRequestOf(t, spans[i], cleaned_text, index)])

\* the tuple (requests, new index) the method returns
CreateTextInsertionRequests(t, index) ==
    ByValue(LAMBDA a :
                [requests |->
                    <<InsertTextReq(a.index, a.cleaned_text)>>
                    \o StyleRequestsOf(a.t, a.link_matches, a.spans,
                                       a.cleaned_text, a.index),
                 index |-> a.index + Len(a.cleaned_text)],
            [t |-> t, index |-> index, cleaned_text |-> CleanedText(t),
             link_matches |-> FindIter("link", t), spans |-> IdentifyAllSpans(t)])

(***************************************************************************)
(* MarkdownFormatter._apply_inline_formatting                              *)
(***************************************************************************)
\* the request of one match: its group 1 is looked up in the cleaned text,
\* and there is none when it is not found
FoundStyleRequest(markdown_text, cleaned_text, current_index, m, style) ==
    ByValue(LAMBDA a :
                IF a.text_pos >= 0
                THEN << [updateTextStyle |->
                           [range |-> [startIndex |-> current_index + a.text_pos,
                                       endIndex |-> current_index + a.text_pos
                                                        + Len(a.text)],
                            textStyle |-> style,
                            fields |-> StyleFields(style)]] >>
                ELSE <<>>,
            [text |-> Slice(markdown_text, m.g1[1], m.g1[2]),
             text_pos |-> Find(cleaned_text, Slice(markdown_text, m.g1[1], m.g1[2]))])

\* the requests of the four loops: code, bold, italic, link
FoundStyleRequests(ms, markdown_text, cleaned_text, current_index) ==
    [i \in 1..Len(ms.code) |->
        FoundStyleRequest(markdown_text, cleaned_text, current_index, ms.code[i],
                          CodeStyle)]
    \o [i \in 1..Len(ms.bold) |->
        FoundStyleRequest(markdown_text, cleaned_text, current_index, ms.bold[i],
                          [bold |-> TRUE])]
    \o [i \in 1..Len(ms.italic) |->
        FoundStyleRequest(markdown_text, cleaned_text, current_index, ms.italic[i],
                          [italic |-> TRUE])]
    \o [i \in 1..Len(ms.link) |->
        FoundStyleRequest(markdown_text, cleaned_text, current_index, ms.link[i],
                          [link |-> [url |-> Slice(markdown_text, ms.link[i].g2[1],
                                                   ms.link[i].g2[2])]])]

\* the request list after the call, which appends to it
ApplyInlineFormatting(reqs, markdown_text, cleaned_text, current_index) ==
    ByValue(LAMBDA a :
                ByValue(LAMBDA rs : reqs \o Flatten(rs),
                        FoundStyleRequests(a.ms, a.markdown_text, a.cleaned_text,
                                           current_index)),
            [ms |-> InlineMatches(markdown_text), markdown_text |-> markdown_text,
             cleaned_text |-> cleaned_text])

(***************************************************************************)
(* MarkdownFormatter.parse                                                 *)
(***************************************************************************)
\* the spans are computed and dropped; the list that is returned stays empty
Parse(t) ==
    LET spans == IdentifyAllSpans(t)
    IN  <<>>

(***************************************************************************)
(* The regex path as a state machine: a markdown text, then one call of    *)
(* one of the methods on it.  The texts are built from the pieces of       *)
(* markdown the patterns look for.                                         *)
(***************************************************************************)
Tokens ==
    { <<"a">>, <<"\n">>, <<"*">>,
      <<"*", "*", "a", "*", "*">>,
      <<"*", "a", "*">>,
      <<Backquote, "a", Backquote>>,
      <<"[", "a", "]", "(", "u", ")">>,
      <<"#", " ">>, <<"*", " ">>, <<"1", ".", " ">> }

TokenSeqs == UNION {[1..n -> Tokens] : n \in 0..MaxTokens}

\* "**a *b* c**"
NestedEmphasisText == <<"*", "*", "a", " ", "*", "b", "*", " ", "c", "*", "*">>

\* "[*a*](u)": a link whose text carries markup
StyledLinkText == <<"[", "*", "a", "*", "]", "(", "u", ")">>

MarkdownTexts ==
    {Flatten(ts) : ts \in TokenSeqs} \cup {NestedEmphasisText, StyledLinkText}

InitRegex ==
    /\ blocks = <<>>
    /\ start_index = 1
    /\ pos = 1
    /\ insertion_index = 1
    /\ requests = <<>>
    /\ block_requests = <<>>
    /\ pc = "idle"
    /\ last_index = <<>>
    /\ remote = [has_tabs |-> TRUE, tab_id |-> "t.0", end_index |-> 2]
    /\ calls = <<>>
    /\ ops = <<>>
    /\ md_text \in MarkdownTexts
    /\ method = "ready"
    /\ arg = 0
    /\ returned = <<>>

\* a call of a method of the regex path
Call(name, a, value) ==
    /\ method = "ready"
    /\ method' = name
    /\ arg' = a
    /\ returned' = value
    /\ UNCHANGED md_text
    /\ UNCHANGED cvars
    /\ UNCHANGED dvars

CallRemoveMarkdownSyntax ==
    Call("_remove_markdown_syntax", 0, RemoveMarkdownSyntax(md_text))

CallIdentifyAllSpans ==
    Call("_identify_all_spans", 0, IdentifyAllSpans(md_text))

CallCountPrecedingSyntaxChars ==
    \E position \in 0..Len(md_text) :
        Call("_count_preceding_syntax_chars", position,
             CountPrecedingSyntaxChars(md_text, position))

CallCreateTextInsertionRequests ==
    \E index \in StartIndices :
        Call("create_text_insertion_requests", index,
             CreateTextInsertionRequests(md_text, index))

\* called on an empty request list, with the text and what
\* _remove_markdown_syntax makes of it
CallApplyInlineFormatting ==
    \E index \in StartIndices :
        Call("_apply_inline_formatting", index,
             ApplyInlineFormatting(<<>>, md_text, RemoveMarkdownSyntax(md_text), index))

CallParse ==
    Call("parse", 0, Parse(md_text))

NextRegex ==
    \/ CallRemoveMarkdownSyntax
    \/ CallIdentifyAllSpans
    \/ CallCountPrecedingSyntaxChars
    \/ CallCreateTextInsertionRequests
    \/ CallApplyInlineFormatting
    \/ CallParse

SpecRegex == InitRegex /\ [][NextRegex]_vars

(***************************************************************************)
(* Both compilation paths of MarkdownFormatter: a run is a compilation by  *)
(* convert_to_doc_requests or a call on the regex path.                    *)
(***************************************************************************)
InitFormatter == Init \/ InitRegex

NextFormatter ==
    \/ Next
    \/ NextRegex

SpecFormatter == InitFormatter /\ [][NextFormatter]_vars

(***************************************************************************)
(* C12: removing the markdown syntax twice gives what removing it once     *)
(* gives, for every markdown text.                                         *)
(***************************************************************************)
C12_IdempotentExtraction ==
    method = "_remove_markdown_syntax" =>
        RemoveMarkdownSyntax(returned) = returned

(***************************************************************************)
(* C13: a list that has an item gets exactly one createParagraphBullets,   *)
(* placed after all the insertText requests of the list, whose range runs  *)
(* from the start of the first item to the end of the last one and whose   *)
(* preset is the disc/circle/square one for <ul> and the decimal/alpha/    *)
(* roman one for <ol>.                                                     *)
(***************************************************************************)
\* the last step compiled a list that has at least one item
ListCompiled ==
    /\ LastBlockCompiled
    /\ blocks[pos - 1].name \in {"ul", "ol"}
    /\ FindAllDirect(blocks[pos - 1], "li") # <<>>

C13_OneBulletPerList ==
    ListCompiled =>
        LET ips == InsertPositions(block_requests)
            bullets == SelectSeq([i \in 1..Len(block_requests) |-> i],
                                 LAMBDA i : IsBullets(block_requests[i]))
            bullet == block_requests[bullets[1]].createParagraphBullets
            last == block_requests[ips[Len(ips)]]
        IN  /\ Len(bullets) = 1
            /\ \A k \in 1..Len(ips) : ips[k] < bullets[1]
            /\ bullet.range.startIndex = InsertIndex(block_requests[ips[1]])
            /\ bullet.range.endIndex = InsertIndex(last) + InsertLen(last)
            /\ bullet.range.endIndex = insertion_index
            /\ bullet.bulletPreset =
                  (IF blocks[pos - 1].name = "ul" THEN "BULLET_DISC_CIRCLE_SQUARE"
                   ELSE "NUMBERED_DECIMAL_ALPHA_ROMAN")

\* an ordered list of two items has been compiled
C13_Witness ==
    /\ ListCompiled
    /\ blocks[pos - 1].name = "ol"
    /\ Len(FindAllDirect(blocks[pos - 1], "li")) = 2
    /\ IsBullets(block_requests[Len(block_requests)])

(***************************************************************************)
(* C14: each item of a list gives exactly one insertText, at the cursor,   *)
(* whose text is the texts of the item's paragraphs joined by two newlines *)
(* (the item's own text when it has no paragraph), trimmed at the end and  *)
(* closed by exactly one newline; the cursor moves by the length of that   *)
(* text, and the list's recorded span ends where the last item ends.       *)
(***************************************************************************)
\* the texts of the paragraphs of an item, a blank one standing as a newline
ItemParagraphTexts(list_item) ==
    LET paragraphs == FindAllDirect(list_item, "p")
    IN  [i \in 1..Len(paragraphs) |->
            IF NonSpace(GetText(paragraphs[i])) = <<>> THEN <<"\n">>
            ELSE GetText(paragraphs[i])]

ItemText(list_item) ==
    LET texts == ItemParagraphTexts(list_item)
        joined == IF texts = <<>> THEN GetText(list_item)
                  ELSE Flatten([i \in 1..Len(texts) |->
                                  IF i < Len(texts) THEN texts[i] \o <<"\n", "\n">>
                                  ELSE texts[i]])
    IN  RStrip(joined) \o <<"\n">>

EndsWithOneNewline(t) ==
    /\ t # <<>>
    /\ t[Len(t)] = "\n"
    /\ Len(t) > 1 => t[Len(t) - 1] # "\n"

TagLevel(n) == CHOOSE l \in 1..6 : <<"h1", "h2", "h3", "h4", "h5", "h6">>[l] = n

C17_HeadingStyle ==
    LastBlockCompiled =>
        LET block == blocks[pos - 1]
            cursor_before == insertion_index - InsertedLen(block_requests)
            styles == SelectSeq(block_requests, IsParagraphStyle)
        IN  /\ block.name \in HeadingTags =>
                /\ Len(block_requests) >= 2
                /\ IsInsert(block_requests[1])
                /\ InsertIndex(block_requests[1]) = cursor_before
                /\ block_requests[1].insertText.text = GetText(block) \o <<"\n">>
                /\ Len(styles) = 1
                /\ block_requests[2] = styles[1]
                /\ styles[1].updateParagraphStyle.range =
                      [startIndex |-> cursor_before,
                       endIndex |-> cursor_before + InsertLen(block_requests[1])]
                /\ styles[1].updateParagraphStyle.paragraphStyle.namedStyleType
                      = NormalizedHeading(TagLevel(block.name))
            /\ block.name \notin (HeadingTags \cup {"ul", "ol"}) => styles = <<>>

\* an <h2> that holds an <em> has been compiled from a cursor past the start
C17_Witness ==
    /\ LastBlockCompiled
    /\ blocks[pos - 1] = E("h2", <<E("em", <<T(<<"a">>)>>)>>)
    /\ insertion_index - InsertedLen(block_requests) > start_index
    /\ Len(block_requests) = 3

(***************************************************************************)
(* C15: no insertText carries an empty text, neither among the requests of *)
(* convert_to_doc_requests nor among those of                              *)
(* create_text_insertion_requests; a blank paragraph is inserted as one    *)
(* newline and a blank cleaned text as one space.                          *)
(***************************************************************************)
C15_NoEmptyInsertion ==
    /\ \A j \in 1..Len(requests) :
          IsInsert(requests[j]) => InsertLen(requests[j]) >= 1
    /\ (LastBlockCompiled /\ blocks[pos - 1].name = "p"
            /\ NonSpace(GetText(blocks[pos - 1])) = <<>>)
          => block_requests[1].insertText.text = <<"\n">>
    /\ method = "create_text_insertion_requests" =>
          LET inserts == SelectSeq(returned.requests, IsInsert)
          IN  /\ Len(inserts) = 1
              /\ InsertLen(inserts[1]) >= 1
              /\ NonSpace(RemoveMarkdownSyntax(md_text)) = <<>>
                    => inserts[1].insertText.text = <<" ">>

\* a text that is markdown syntax only has been compiled on the regex path
C15_Witness ==
    /\ method = "create_text_insertion_requests"
    /\ md_text # <<>>
    /\ RemoveMarkdownSyntax(md_text) = <<>>
    /\ returned.requests[1].insertText.text = <<" ">>

(***************************************************************************)
(* C16: a span whose text is not found in the plain text of its block gets *)
(* no style request, and nothing fails: the block's insertText is there    *)
(* with the whole text and the cursor has moved by the whole length.  On   *)
(* the regex path the spans searched for are the links; in                 *)
(* convert_to_doc_requests they are the inline elements of the block.      *)
(***************************************************************************)
\* the link matches whose text occurs in the cleaned text
LocatedLinks(t, cleaned) ==
    SelectSeq(FindIter("link", t),
              LAMBDA m : Find(cleaned, Slice(t, m.g1[1], m.g1[2])) # -1)

\* the inline elements of a block whose text occurs in the text of the block
LocatedInlines(block) ==
    SelectSeq(Descendants(block),
              LAMBDA d : /\ d.name \in InlineTags
                         /\ GetText(d) # <<>>
                         /\ Find(GetText(block), GetText(d)) # -1)

C16_SpanNotFoundIsSkipped ==
    /\ method = "create_text_insertion_requests" =>
          LET first == returned.requests[1]
              cleaned == first.insertText.text
          IN  /\ IsInsert(first)
              /\ InsertIndex(first) = arg
              /\ NonSpace(RemoveMarkdownSyntax(md_text)) # <<>>
                    => cleaned = RemoveMarkdownSyntax(md_text)
              /\ returned.index = arg + Len(cleaned)
              /\ Len(StylesWith(returned.requests, "link"))
                    = Len(LocatedLinks(md_text, cleaned))
    /\ (LastBlockCompiled /\ blocks[pos - 1].name \notin {"ul", "ol"}) =>
          LET block == blocks[pos - 1]
              first == block_requests[1]
          IN  /\ IsInsert(first)
              /\ NonSpace(GetText(block)) # <<>>
                    => first.insertText.text = GetText(block) \o <<"\n">>
              /\ insertion_index = InsertIndex(first) + InsertLen(first)
              /\ Len(SelectSeq(block_requests, IsTextStyle)) = Len(LocatedInlines(block))

\* "[*a*](u)" has been compiled: the link text "*a*" is not in the text "a"
C16_Witness ==
    /\ method = "create_text_insertion_requests"
    /\ md_text = StyledLinkText
    /\ Len(FindIter("link", md_text)) = 1
    /\ LocatedLinks(md_text, returned.requests[1].insertText.text) = <<>>
    /\ StylesWith(returned.requests, "link") = <<>>
    /\ returned.requests[1].insertText.text = <<"a">>
    /\ returned.index = arg + 1

(***************************************************************************)
(* C18: for a boundary p of a bold, italic or code span of a text,         *)
(* p - _count_preceding_syntax_chars(text, p) is the offset, in            *)
(* _remove_markdown_syntax(text), of the character that stands at p: the   *)
(* number of characters before p that the removal keeps.                   *)
(***************************************************************************)
RemovalOrder == <<"header", "bold", "italic", "code", "link", "ordered", "unordered">>

\* the offsets, in the original text, of the characters left after the
\* substitutions pats, s being the text so far and origin its offsets
RECURSIVE SurvivingOrigins(_, _, _)
SurvivingOrigins(pats, s, origin) ==
    IF pats = <<>> THEN origin
    ELSE ByValue(LAMBDA a :
                    SurvivingOrigins(Tail(a.pats),
                                     [k \in 1..Len(a.kept) |-> a.s[a.kept[k]]],
                                     [k \in 1..Len(a.kept) |-> a.origin[a.kept[k]]]),
                 [pats |-> pats, s |-> s, origin |-> origin,
                  kept |-> KeptIndices(Head(pats), s)])

Origins(t) == SurvivingOrigins(RemovalOrder, t, [k \in 1..Len(t) |-> k - 1])

\* the offset in the cleaned text of the character at offset p of the text
CleanOffset(t, p) ==
    ByValue(LAMBDA origins : Cardinality({k \in 1..Len(origins) : origins[k] < p}),
            Origins(t))

\* the starts and ends of the spans that are translated
SpanBoundaries(t) ==
    ByValue(LAMBDA spans :
                {spans[i].start : i \in 1..Len(spans)}
                    \cup {spans[i].end : i \in 1..Len(spans)},
            SelectSeq(IdentifyAllSpans(t), LAMBDA sp : "link" \notin DOMAIN sp.style))

C18_OffsetTranslation ==
    (method = "_count_preceding_syntax_chars" /\ arg \in SpanBoundaries(md_text)) =>
        arg - returned = CleanOffset(md_text, arg)

(***************************************************************************)
(* C19: parse returns the formatting requests of the text: it returns a    *)
(* non-empty list whenever _identify_all_spans finds a span in the text.   *)
(***************************************************************************)
C19_ParseReturnsRequests ==
    (method = "parse" /\ IdentifyAllSpans(md_text) # <<>>) => returned # <<>>

(***************************************************************************)
(* C20: a top-level node that is not blank and is none of <p>, <h1>..<h6>, *)
(* <ul>, <ol> is compiled as a paragraph, without a failure: one           *)
(* insertText of its text and a newline at the cursor, which moves by the  *)
(* length of that text; a blank string node gives no request and leaves    *)
(* the cursor where it is.                                                 *)
(***************************************************************************)
\* the loop is at a node that no branch but the fallback takes
AtOtherNode ==
    /\ InLoop
    /\ ~IsWhitespaceNode(blocks[pos])
    /\ blocks[pos].name \notin {"p", "ul", "ol"} \cup HeadingTags

AtWhitespaceNode == InLoop /\ IsWhitespaceNode(blocks[pos])

C20_FallbackIsParagraph ==
    [][/\ AtOtherNode =>
            LET inserted == GetText(blocks[pos]) \o <<"\n">>
            IN  /\ pc' # "raised"
                /\ pos' = pos + 1
                /\ Len(requests') > Len(requests)
                /\ requests'[Len(requests) + 1] = InsertTextReq(insertion_index, inserted)
                /\ \A j \in (Len(requests) + 2)..Len(requests') : ~IsInsert(requests'[j])
                /\ insertion_index' = insertion_index + Len(inserted)
       /\ AtWhitespaceNode =>
            /\ pc' # "raised"
            /\ requests' = requests
            /\ insertion_index' = insertion_index]_vars

(***************************************************************************)
(* C21: _count_preceding_syntax_chars counts, for each bold, italic or     *)
(* code construct of the text, nothing when the construct starts at or     *)
(* after the position, its opening delimiter (2, 1, 1 characters) when it  *)
(* starts before the position and ends after it, and both delimiters (4,   *)
(* 2, 2) when it ends at or before the position.  The constructs are the   *)
(* spans _identify_all_spans resolves; what is counted besides them is     *)
(* what the links give.                                                    *)
(***************************************************************************)
\* the bold, italic and code constructs of a text, delimiters included
Constructs(t) ==
    ByValue(LAMBDA spans :
                {[kind |-> StyleFields(spans[i].style)[1],
                  width |-> IF "bold" \in DOMAIN spans[i].style THEN 2 ELSE 1,
                  start |-> spans[i].start
                              - (IF "bold" \in DOMAIN spans[i].style THEN 2 ELSE 1),
                  end |-> spans[i].end
                              + (IF "bold" \in DOMAIN spans[i].style THEN 2 ELSE 1)]
                    : i \in {j \in 1..Len(spans) : "link" \notin DOMAIN spans[j].style}},
            IdentifyAllSpans(t))

\* the delimiters of width n opened before p, and those closed at or before p
OpenedBefore(cs, p, n) == Cardinality({c \in cs : c.width = n /\ c.start < p})
ClosedBefore(cs, p, n) ==
    Cardinality({c \in cs : c.width = n /\ c.start < p /\ c.end <= p})

\* what the links of a text give to the count
LinkPart(t, p) ==
    ByValue(LAMBDA links : SumSeq([i \in 1..Len(links) |-> LinkCount(links[i], p)]),
            FindIter("link", t))

C21_DelimiterCounting ==
    method = "_count_preceding_syntax_chars" =>
        ByValue(LAMBDA cs :
                    returned = 2 * (OpenedBefore(cs, arg, 2) + ClosedBefore(cs, arg, 2))
                               + OpenedBefore(cs, arg, 1) + ClosedBefore(cs, arg, 1)
                               + LinkPart(md_text, arg),
                Constructs(md_text))

\* the position is inside a bold construct, after a code one and before an
\* italic one
C21_Witness ==
    /\ method = "_count_preceding_syntax_chars"
    /\ \E c \in Constructs(md_text) :
           c.kind = "bold" /\ c.start < arg /\ arg < c.end
    /\ \E c \in Constructs(md_text) :
           c.kind = "weightedFontFamily" /\ c.end <= arg
    /\ \E c \in Constructs(md_text) :
           c.kind = "italic" /\ c.start >= arg
    /\ returned = 4

(***************************************************************************)
(* C22: an italic span is produced for a match of the single-asterisk      *)
(* pattern if and only if no match of the bold pattern contains the        *)
(* match, in _identify_all_spans and in _apply_inline_formatting; no       *)
(* produced italic span lies inside a bold match.                          *)
(***************************************************************************)
\* whether a match of the bold pattern contains the range [start, end)
InsideBoldMatch(t, start, end) ==
    ByValue(LAMBDA bolds :
                \E b \in 1..Len(bolds) : bolds[b].start <= start /\ end <= bolds[b].end,
            FindIter("bold", t))

\* the matches of the italic pattern that no bold match contains
FreeItalics(t) ==
    SelectSeq(FindIter("italic", t), LAMBDA m : ~InsideBoldMatch(t, m.start, m.end))

\* those of them whose text occurs in the cleaned text
FoundFreeItalics(t) ==
    ByValue(LAMBDA cleaned :
                SelectSeq(FreeItalics(t),
                          LAMBDA m : Find(cleaned, Slice(t, m.g1[1], m.g1[2])) >= 0),
            RemoveMarkdownSyntax(t))

ItalicSpans(spans) == SelectSeq(spans, LAMBDA sp : "italic" \in DOMAIN sp.style)

ItalicRequests(reqs) ==
    SelectSeq(reqs, LAMBDA r : "italic" \in DOMAIN r.updateTextStyle.textStyle)

\* the italic spans of _identify_all_spans are those of the matches that no
\* bold match contains, and none of them lies inside a bold match
ItalicSpansAreFree ==
    method = "_identify_all_spans" =>
        ByValue(LAMBDA a :
                    /\ Len(a.spans) = Len(a.free)
                    /\ {<<a.spans[i].start, a.spans[i].end>> : i \in 1..Len(a.spans)}
                         = {<<a.free[i].start + 1, a.free[i].end - 1>> : i \in 1..Len(a.free)}
                    /\ \A i \in 1..Len(a.spans) :
                         ~InsideBoldMatch(md_text, a.spans[i].start - 1, a.spans[i].end + 1),
                [spans |-> ItalicSpans(returned), free |-> FreeItalics(md_text)])

\* C22 as stated: _apply_inline_formatting gives one italic style for each
\* match that no bold match contains
C22_ItalicIffOutsideBold ==
    /\ ItalicSpansAreFree
    /\ method = "_apply_inline_formatting" =>
           Len(ItalicRequests(returned)) = Len(FreeItalics(md_text))

\* C22, amended: in _apply_inline_formatting the match must also have its
\* text found in the cleaned text
C22_ItalicOutsideBoldAndFound ==
    /\ ItalicSpansAreFree
    /\ method = "_apply_inline_formatting" =>
           Len(ItalicRequests(returned)) = Len(FoundFreeItalics(md_text))

\* a text with an italic match inside a bold match, one outside that is
\* styled, and one outside whose text is not found
C22_Witness ==
    /\ method = "_apply_inline_formatting"
    /\ Len(FreeItalics(md_text)) < Len(FindIter("italic", md_text))
    /\ Len(FoundFreeItalics(md_text)) < Len(FreeItalics(md_text))
    /\ ItalicRequests(returned) # <<>>

(***************************************************************************)
(* C23: create_header, create_table, insert_image and add_math_equation    *)
(* insert at the end of the document: the index of the first insertion a   *)
(* call sends is the end index of the last content element of the document *)
(* it fetched, minus 1, and is never below 1, whether or not the fetched   *)
(* document carries tabs.                                                  *)
(***************************************************************************)
EndInserters == {"create_header", "create_table", "insert_image", "add_math_equation"}

\* the step is a call of one of the four methods
EndInserterCalled ==
    /\ Len(ops') = Len(ops) + 1
    /\ ops'[Len(ops')].name \in EndInserters

\* the calls the step has made on docs_service
NewCalls == SubSeq(calls', Len(calls) + 1, Len(calls'))

\* the index at which a request inserts
LocationIndex(r) ==
    IF "insertText" \in DOMAIN r THEN r.insertText.location.index
    ELSE IF "insertInlineImage" \in DOMAIN r THEN r.insertInlineImage.location.index
    ELSE r.insertTable.location.index

C23_InsertAtEnd ==
    [][EndInserterCalled =>
          \A i \in 1..Len(NewCalls) :
              (NewCalls[i].kind = "batchUpdate"
                    /\ \A j \in 1..(i - 1) : NewCalls[j].kind # "batchUpdate")
              => /\ LocationIndex(NewCalls[i].requests[1]) = remote.end_index - 1
                 /\ LocationIndex(NewCalls[i].requests[1]) >= 1]_vars

(***************************************************************************)
(* C24: create_header sends the insertText batch before the                *)
(* updateParagraphStyle batch and sends no style batch when the insert     *)
(* batch has failed; the style range starts where the text is inserted and *)
(* covers the header text and its newline, no more and no less.            *)
(***************************************************************************)
\* the batchUpdate calls made by the k-th method call
BatchesOf(k) == SelectSeq(CallsOf(k), LAMBDA c : c.kind = "batchUpdate")

\* every call made by the k-th method call before its second batchUpdate
\* has returned
AllReturnedBeforeStyle(k) ==
    \A i \in 1..Len(CallsOf(k)) :
        (Len(SelectSeq(SubSeq(CallsOf(k), 1, i), LAMBDA c : c.kind = "batchUpdate")) < 2)
            => CallsOf(k)[i].ok

C24_HeaderInsertThenStyle ==
    \A k \in 1..Len(ops) :
        ops[k].name = "create_header" =>
            LET batches == BatchesOf(k)
            IN  /\ Len(batches) <= 2
                /\ ~ops[k].raised => Len(batches) = 2
                /\ Len(batches) >= 1 =>
                      /\ Len(batches[1].requests) = 1
                      /\ IsInsert(batches[1].requests[1])
                      /\ batches[1].requests[1].insertText.text
                            = ops[k].args.text \o <<"\n">>
                /\ Len(batches) = 2 =>
                      /\ AllReturnedBeforeStyle(k)
                      /\ Len(batches[2].requests) = 1
                      /\ IsParagraphStyle(batches[2].requests[1])
                      /\ RangeOf(batches[2].requests[1]).startIndex
                            = InsertIndex(batches[1].requests[1])
                      /\ RangeOf(batches[2].requests[1]).endIndex
                            = InsertIndex(batches[1].requests[1])
                                + InsertLen(batches[1].requests[1])

\* one call whose insert batch failed, then one that sent both batches
C24_Witness ==
    /\ Len(ops) = 2
    /\ ops[1].name = "create_header" /\ ops[1].raised
    /\ Len(BatchesOf(1)) = 1 /\ ~BatchesOf(1)[1].ok
    /\ ops[2].name = "create_header" /\ ~ops[2].raised
    /\ Len(BatchesOf(2)) = 2

(***************************************************************************)
(* C25: in create_worksheet and generate_answer_sheet the TITLE paragraph  *)
(* style range, [1, 1 + len(title)), covers the offsets at which           *)
(* append_text has inserted the title, whatever the end index of the       *)
(* document was.                                                           *)
(***************************************************************************)
\* the requests the k-th method call has sent, in order
RequestsSent(k) == Flatten([i \in 1..Len(CallsOf(k)) |-> CallsOf(k)[i].requests])

\* the insertions of the title made by the k-th method call
TitleInserts(k) ==
    SelectSeq(RequestsSent(k),
              LAMBDA r : IsInsert(r)
                         /\ r.insertText.text = ops[k].args.title \o <<"\n", "\n">>)

C25_TitleStyleCoversTitle ==
    \A k \in 1..Len(ops) :
        ops[k].name \in {"create_worksheet", "generate_answer_sheet"} =>
            \A i \in 1..Len(ParagraphStylesSent(k)), j \in 1..Len(TitleInserts(k)) :
                /\ RangeOf(ParagraphStylesSent(k)[i]).startIndex
                      <= InsertIndex(TitleInserts(k)[j])
                /\ InsertIndex(TitleInserts(k)[j]) + Len(ops[k].args.title)
                      <= RangeOf(ParagraphStylesSent(k)[i]).endIndex

(***************************************************************************)
(* C26: insert_text sends a formatting batch only when a format option is  *)
(* set and only after the insertion batch has succeeded; the batch is one  *)
(* updateTextStyle over [location.index, location.index + len(text)), the  *)
(* inserted text.                                                          *)
(***************************************************************************)
OptionSet(args) ==
    args.format_bold \/ args.format_italic \/ args.format_size # 0
        \/ args.format_color # <<>>

C26_FormatAfterInsert ==
    \A k \in 1..Len(ops) :
        ops[k].name = "insert_text" =>
            LET batches == BatchesOf(k)
            IN  /\ Len(batches) \in 1..2
                /\ batches[1].requests
                      = <<[insertText |-> [location |-> ops[k].args.location,
                                           text |-> ops[k].args.text]]>>
                /\ Len(batches) = 2 =>
                      /\ OptionSet(ops[k].args)
                      /\ AllReturnedBeforeStyle(k)
                      /\ Len(batches[2].requests) = 1
                      /\ IsTextStyle(batches[2].requests[1])
                      /\ RangeOf(batches[2].requests[1]).startIndex
                            = ops[k].args.location.index
                      /\ RangeOf(batches[2].requests[1]).endIndex
                            = ops[k].args.location.index + Len(ops[k].args.text)

\* a call with a size only has sent its formatting batch, and a call with
\* no option has sent none
C26_Witness ==
    /\ Len(ops) = 2
    /\ ops[1].name = "insert_text" /\ ~ops[1].raised
    /\ ~ops[1].args.format_bold /\ ~ops[1].args.format_italic
    /\ ops[1].args.format_size # 0
    /\ Len(BatchesOf(1)) = 2
    /\ ops[2].name = "insert_text" /\ ~ops[2].raised
    /\ ~OptionSet(ops[2].args)
    /\ Len(BatchesOf(2)) = 1

(***************************************************************************)
(* C27: for a document with tabs, whenever the most recent batch_update    *)
(* has succeeded, last_index is the end index of the last content element  *)
(* of the first tab as that update left it; and of two insertions with no  *)
(* failed call from the one to the other, the later, when append_text made *)
(* it, lies at or after the end of the text the earlier inserted.          *)
(***************************************************************************)
IsBatch(i) == calls[i].kind = "batchUpdate"

\* the last batchUpdate has returned, and so has the fetch that follows it
LastBatchUpdateSucceeded ==
    \E i \in 1..(Len(calls) - 1) :
        /\ IsBatch(i) /\ calls[i].ok
        /\ calls[i + 1].kind = "get" /\ calls[i + 1].ok
        /\ \A j \in (i + 1)..Len(calls) : ~IsBatch(j)

\* call i is a batch of one insertText
IsInsertion(i) ==
    IsBatch(i) /\ Len(calls[i].requests) = 1 /\ IsInsert(calls[i].requests[1])

\* the insertion is one of append_text: not the newline that the worksheet
\* and the answer sheet put at index 1
IsAppend(i) == IsInsertion(i) /\ calls[i].requests[1].insertText.text # <<"\n">>

C27_LastIndexTracksEnd ==
    remote.has_tabs =>
        /\ LastBatchUpdateSucceeded => last_index = <<remote.end_index>>
        /\ \A i \in 1..Len(calls), j \in 1..Len(calls) :
              (/\ i < j
               /\ IsInsertion(i)
               /\ IsAppend(j)
               /\ \A m \in i..j : calls[m].ok)
              => InsertIndex(calls[j].requests[1])
                    >= InsertIndex(calls[i].requests[1]) + InsertLen(calls[i].requests[1])

\* create_worksheet has returned on a document that held text: the title and
\* the problem were appended one after the other
C27_Witness ==
    /\ remote.has_tabs
    /\ Len(ops) = 2
    /\ ops[1].name = "append_text" /\ ~ops[1].raised
    /\ ops[2].name = "create_worksheet" /\ ~ops[2].raised
    /\ LastBatchUpdateSucceeded
    /\ Cardinality({i \in 1..Len(calls) : IsAppend(i)}) >= 3

(***************************************************************************)
(* C28: the requests of convert_to_doc_requests for the blocks A followed  *)
(* by the blocks B, from the index s, are the requests for A from s        *)
(* followed by the requests for B from s plus the length of the texts the  *)
(* requests for A insert.                                                  *)
(***************************************************************************)
\* the blocks split after the n-th: what A gives from s, then what B gives
\* from where the insertions of A end
SplitCompilation(n) ==
    ByValue(LAMBDA a :
                [first |-> a,
                 second |-> ConvertLoop(SubSeq(blocks, n + 1, Len(blocks)),
                                        start_index + InsertedLen(a.requests), <<>>)],
            ConvertLoop(SubSeq(blocks, 1, n), start_index, <<>>))

C28_ComposesOverConcatenation ==
    \A n \in 0..Len(blocks) :
        ByValue(LAMBDA c :
                    /\ pc = "done" =>
                          /\ ~c.first.raised /\ ~c.second.raised
                          /\ requests = c.first.requests \o c.second.requests
                          /\ insertion_index = c.second.index
                    /\ pc = "raised" => (c.first.raised \/ c.second.raised),
                SplitCompilation(n))

\* two blocks have been compiled, a list and then a block with a styled
\* span, from an index other than 1
C28_Witness ==
    /\ pc = "done"
    /\ start_index > 1
    /\ Len(blocks) = 2
    /\ blocks[1].name \in {"ul", "ol"}
    /\ \E i \in 1..Len(block_requests) : IsTextStyle(block_requests[i])
    /\ Len(requests) > Len(block_requests)

(***************************************************************************)
(* C29: compilation is translation invariant and stateless: the requests   *)
(* of convert_to_doc_requests from s + k are the requests from s with      *)
(* every insertion index and every range bound increased by k and nothing  *)
(* else changed, and a second call with the same input returns the same    *)
(* requests.                                                               *)
(***************************************************************************)
ShiftedRange(range, k) ==
    [range EXCEPT !.startIndex = @ + k, !.endIndex = @ + k]

\* the request r with its index or its range moved by k
ShiftedRequest(r, k) ==
    IF IsInsert(r) THEN [r EXCEPT !.insertText.location.index = @ + k]
    ELSE IF IsTextStyle(r) THEN
        [r EXCEPT !.updateTextStyle.range = ShiftedRange(@, k)]
    ELSE IF IsParagraphStyle(r) THEN
        [r EXCEPT !.updateParagraphStyle.range = ShiftedRange(@, k)]
    ELSE [r EXCEPT !.createParagraphBullets.range = ShiftedRange(@, k)]

Shifted(reqs, k) == [i \in 1..Len(reqs) |-> ShiftedRequest(reqs[i], k)]

C29_TranslationInvariantStateless ==
    \A k \in 0..MaxStart :
        ByValue(LAMBDA again :
                    /\ pc = "done" =>
                          /\ ~again.raised
                          /\ again.requests = Shifted(requests, k)
                          /\ again.index = insertion_index + k
                    /\ pc = "raised" => again.raised,
                ConvertLoop(blocks, start_index + k, <<>>))

\* a document with an insertion, a text style, a heading style and a list
\* has been compiled
C29_Witness ==
    /\ pc = "done"
    /\ \E i \in 1..Len(requests) : IsInsert(requests[i])
    /\ \E i \in 1..Len(requests) : IsTextStyle(requests[i])
    /\ \E i \in 1..Len(requests) : IsParagraphStyle(requests[i])
    /\ \E i \in 1..Len(requests) : IsBullets(requests[i])

(***************************************************************************)
(* C30: every updateTextStyle request of convert_to_doc_requests has a     *)
(* style that is not empty, a fields mask that is not empty and a range    *)
(* with startIndex < endIndex, whatever the inline element, a link whose   *)
(* href is missing or empty included.                                      *)
(***************************************************************************)
WellFormedTextStyle(r) ==
    /\ DOMAIN r.updateTextStyle.textStyle # {}
    /\ Len(r.updateTextStyle.fields) > 0
    /\ r.updateTextStyle.range.startIndex < r.updateTextStyle.range.endIndex

C30_TextStyleWellFormed ==
    \A i \in 1..Len(requests) :
        IsTextStyle(requests[i]) => WellFormedTextStyle(requests[i])

====
